---- MODULE Spec2Model ----
(***************************************************************************)
(* x402 payment gating for HTTP and gRPC (grpc-gateway-x402, v2).          *)
(*                                                                         *)
(* The module models                                                       *)
(*   - the pricing-rule resolver (Config.MatchEndpoint, Config.MatchMethod,*)
(*     matchPath),                                                         *)
(*   - the payment codec at the level of JSON fields,                      *)
(*   - the request state machine of the HTTP middleware and of the unary   *)
(*     and stream gRPC interceptors, one step per stretch of code between  *)
(*     two calls that leave the middleware (Verify, Settle, the handler).  *)
(*   - the EVM verifier (EVMVerifier.Verify and Settle over the answers of *)
(*     the facilitator).                                                   *)
(*                                                                         *)
(* Go strings that are matched character by character (paths, methods,     *)
(* patterns) are sequences of one-character strings; opaque strings        *)
(* (addresses, networks, hashes) are TLA+ strings.  A Go pointer or an     *)
(* interface value is a sequence of length at most one: <<>> is nil.       *)
(***************************************************************************)
EXTENDS Integers, Sequences, FiniteSets, TLC

VARIABLES
    cfg,            \* the Config, fixed after construction
    server,         \* the constructor's outcome: "new", "serving" or "panicked"
    lookupKind,     \* resolver harness: "endpoint" or "method"
    lookupId,       \* resolver harness: the identifier looked up
    lookupLog,      \* resolver harness: the results of the calls made so far
    codec,          \* codec harness: the value, its encoded form, what decoding gave
    evm,            \* verifier harness: the payload, the facilitator calls, the results
    streamMsgs,     \* per request: messages the stream handler has sent or received
    transport,      \* per request: "http", "unary" or "stream"
    ident,          \* per request: URL path or full gRPC method
    hdrs,           \* per request: request headers / incoming metadata
    state,          \* per request: the state of the protocol state machine
    rule,           \* per request: the resolved pricing rule
    isV2,           \* per request: credential arrived under the V2 key
    payload,        \* per request: the decoded PaymentPayload
    requirements,   \* per request: the requirements handed to the verifier
    verifyCalls,    \* per request: the arguments of every Verify call
    settleCalls,    \* per request: the arguments of every Settle call
    verifyResult,   \* per request: what Verify returned
    settleResult,   \* per request: what Settle returned
    handlerCalls,   \* per request: number of invocations of the wrapped handler
    handlerCtx,     \* per request: the PaymentContext the handler saw
    handlerResult,  \* per request: "none", "running", "ok" or "err"
    resp            \* per request: the response (status, headers/trailers, body)

resolverVars == <<lookupKind, lookupId, lookupLog>>
requestVars == <<transport, ident, hdrs, state, rule, isV2, payload, requirements,
                 verifyCalls, settleCalls, verifyResult, settleResult,
                 handlerCalls, handlerCtx, handlerResult, resp, streamMsgs>>
vars == <<cfg, server, lookupKind, lookupId, lookupLog, transport, ident, hdrs, state, rule,
          isV2, payload, requirements, verifyCalls, settleCalls, verifyResult,
          settleResult, handlerCalls, handlerCtx, handlerResult, resp, codec, streamMsgs,
          evm>>

(***************************************************************************)
(* Bounds                                                                  *)
(***************************************************************************)
\* largest number of patterns in a rule table of the resolver harness
MaxRules == 2
\* largest number of skip patterns in the resolver harness
MaxSkips == 1
\* largest number of resolver calls on one identifier
\* messages a stream handler sends or receives
MaxMessages == 2

MaxLookups == 2

(***************************************************************************)
(* Strings as character sequences                                          *)
(***************************************************************************)
HasPrefix(s, p) == Len(p) <= Len(s) /\ SubSeq(s, 1, Len(p)) = p

HasSuffix(s, p) == Len(p) <= Len(s) /\ SubSeq(s, Len(s) - Len(p) + 1, Len(s)) = p

TrimSuffix(s, p) == IF HasSuffix(s, p) THEN SubSeq(s, 1, Len(s) - Len(p)) ELSE s

\* path.Match of the Go library for patterns made of literals, "*" and "?":
\* "*" matches any run of non-"/" characters, "?" one non-"/" character.
RECURSIVE PathMatch(_, _)
PathMatch(pattern, name) ==
    IF pattern = <<>> THEN name = <<>>
    ELSE IF Head(pattern) = "*"
         THEN \E k \in 0..Len(name) :
                  /\ \A i \in 1..k : name[i] # "/"
                  /\ PathMatch(Tail(pattern), SubSeq(name, k + 1, Len(name)))
    ELSE IF Head(pattern) = "?"
         THEN name # <<>> /\ Head(name) # "/" /\ PathMatch(Tail(pattern), Tail(name))
    ELSE name # <<>> /\ Head(name) = Head(pattern) /\ PathMatch(Tail(pattern), Tail(name))

matchPath(requestPath, pattern) ==
    IF requestPath = pattern THEN TRUE
    ELSE IF HasSuffix(pattern, <<"/", "*">>)
         THEN LET prefix == TrimSuffix(pattern, <<"/", "*">>)
              IN  HasPrefix(requestPath, prefix \o <<"/">>) \/ requestPath = prefix
    ELSE PathMatch(pattern, requestPath)

(***************************************************************************)
(* Pricing-rule resolver                                                   *)
(***************************************************************************)
\* (nil, false)
NoPayment == [rule |-> <<>>, requiresPayment |-> FALSE]

Priced(r) == [rule |-> <<r>>, requiresPayment |-> TRUE]

\* Go ranges over a map in an unspecified order: every order of the keys.
KeyOrders(table) ==
    LET K == DOMAIN table
    IN  {o \in [1..Cardinality(K) -> K] : \A i, j \in DOMAIN o : i # j => o[i] # o[j]}

\* a faulty wildcard loop, for comparison: the first matching pattern met wins,
\* whatever its length
RECURSIVE BestMatchFirst(_, _, _, _, _)
BestMatchFirst(table, id, order, bestMatch, bestRule) ==
    IF order = <<>> THEN bestRule
    ELSE IF matchPath(id, Head(order)) THEN <<table[Head(order)]>>
    ELSE BestMatchFirst(table, id, Tail(order), bestMatch, bestRule)

\* the wildcard loop: the first pattern met that is strictly longer than the
\* best so far replaces it
RECURSIVE BestMatch(_, _, _, _, _)
BestMatch(table, id, order, bestMatch, bestRule) ==
    IF order = <<>> THEN bestRule
    ELSE LET pattern == Head(order)
         IN  IF matchPath(id, pattern) /\ Len(pattern) > Len(bestMatch)
             THEN BestMatch(table, id, Tail(order), pattern, <<table[pattern]>>)
             ELSE BestMatch(table, id, Tail(order), bestMatch, bestRule)

\* a faulty resolver, for comparison: the skip list is consulted last
MatchEndpointSkipLast(c, requestPath, order) ==
    IF requestPath \in DOMAIN c.EndpointPricing
    THEN Priced(c.EndpointPricing[requestPath])
    ELSE LET bestRule == BestMatch(c.EndpointPricing, requestPath, order, <<>>, <<>>)
         IN  IF bestRule # <<>> THEN Priced(bestRule[1])
             ELSE IF c.DefaultPricing # <<>> THEN Priced(c.DefaultPricing[1])
             ELSE NoPayment

MatchEndpoint(c, requestPath, order) ==
    IF \E i \in 1..Len(c.SkipPaths) : matchPath(requestPath, c.SkipPaths[i])
    THEN NoPayment
    ELSE IF requestPath \in DOMAIN c.EndpointPricing
         THEN Priced(c.EndpointPricing[requestPath])
    ELSE LET bestRule == BestMatch(c.EndpointPricing, requestPath, order, <<>>, <<>>)
         IN  IF bestRule # <<>> THEN Priced(bestRule[1])
             ELSE IF c.DefaultPricing # <<>> THEN Priced(c.DefaultPricing[1])
             ELSE NoPayment

\* a faulty resolver, for comparison: every method is priced, by the rule of
\* the first pattern met
MatchMethodNeverFree(c, fullMethod, order) == Priced(c.MethodPricing[order[1]])

MatchMethod(c, fullMethod, order) ==
    IF \E i \in 1..Len(c.SkipMethods) : matchPath(fullMethod, c.SkipMethods[i])
    THEN NoPayment
    ELSE IF fullMethod \in DOMAIN c.MethodPricing
         THEN Priced(c.MethodPricing[fullMethod])
    ELSE LET bestRule == BestMatch(c.MethodPricing, fullMethod, order, <<>>, <<>>)
         IN  IF bestRule # <<>> THEN Priced(bestRule[1])
             ELSE IF c.DefaultPricing # <<>> THEN Priced(c.DefaultPricing[1])
             ELSE NoPayment

(***************************************************************************)
(* Configuration data                                                      *)
(***************************************************************************)
\* Config.Validate: ValidityDuration defaults to 5 minutes (in seconds)
DefaultValiditySeconds == 300

TokenA == [Network |-> "eip155:84532", AssetContract |-> "0xUSDC84532",
           Symbol |-> "USDC", Recipient |-> "0xRecipient",
           Amount |-> "1000000", TokenName |-> "USD Coin"]

TokenB == [Network |-> "eip155:42161", AssetContract |-> "0xUSDC42161",
           Symbol |-> "USDC", Recipient |-> "0xTreasury",
           Amount |-> "2000000", TokenName |-> "USDC Arbitrum"]

\* TokenRequirement.Validate
TokenValid(t) ==
    /\ t.Network # ""
    /\ t.Symbol # ""
    /\ t.Recipient # ""
    /\ t.AssetContract # ""
    /\ t.Amount # ""

\* PricingRule.Validate
RuleValid(p) ==
    /\ Len(p.AcceptedTokens) # 0
    /\ \A i \in 1..Len(p.AcceptedTokens) : TokenValid(p.AcceptedTokens[i])

\* a faulty validation, for comparison: only the verifier is looked at
OnlyVerifierChecked(c) == c.Verifier

\* Config.Validate
ConfigValid(c) ==
    /\ c.Verifier
    /\ \A k \in DOMAIN c.EndpointPricing : RuleValid(c.EndpointPricing[k])
    /\ \A k \in DOMAIN c.MethodPricing : RuleValid(c.MethodPricing[k])
    /\ c.DefaultPricing # <<>> => RuleValid(c.DefaultPricing[1])

\* A set as a slice, in some fixed order.
SeqOf(S) ==
    CHOOSE f \in [1..Cardinality(S) -> S] : \A i, j \in 1..Cardinality(S) : i # j => f[i] # f[j]

(***************************************************************************)
(* Resolver harness: a configuration and an identifier are drawn, and      *)
(* MatchEndpoint / MatchMethod are called on them up to MaxLookups times.  *)
(***************************************************************************)
Patterns == { <<"/", "a">>, <<"/", "*">>, <<"/", "a", "/", "*">>,
              <<"/", "a", "/", "b">>, <<"/", "*", "/", "b">>, <<"/", "a", "/", "?">> }

Identifiers == { <<"/", "a">>, <<"/", "a", "/", "b">>, <<"/", "a", "/", "c">>,
                 <<"/", "h">>, <<"x">> }

\* the rule stored under a pattern: told apart by its description
RuleAt(p) == [Amount |-> "", AcceptedTokens |-> <<TokenA>>, Description |-> p]

DefaultRule == [Amount |-> "", AcceptedTokens |-> <<TokenB>>, Description |-> <<"d">>]

HarnessConfigs ==
    { [Verifier |-> TRUE,
       EndpointPricing |-> [p \in K |-> RuleAt(p)],
       MethodPricing |-> [p \in K |-> RuleAt(p)],
       DefaultPricing |-> d,
       ValidityDuration |-> DefaultValiditySeconds,
       SkipPaths |-> SeqOf(S),
       SkipMethods |-> SeqOf(S),
       CustomPaywallHTML |-> ""] :
         K \in {X \in SUBSET Patterns : Cardinality(X) <= MaxRules},
         S \in {X \in SUBSET Patterns : Cardinality(X) <= MaxSkips},
         d \in {<<>>, <<DefaultRule>>} }

(***************************************************************************)
(* Payment codec.  A header or metadata value is                           *)
(*   [kind |-> "empty"]    the empty string,                               *)
(*   [kind |-> "badb64"]   not base64,                                     *)
(*   [kind |-> "badjson"]  base64 of bytes json.Unmarshal rejects,         *)
(*   [kind |-> "json", obj |-> o]  base64 of the JSON object o, a function *)
(*                         from the keys present to their values.          *)
(***************************************************************************)
WireEmpty == [kind |-> "empty"]
WireBadB64 == [kind |-> "badb64"]
WireBadJSON == [kind |-> "badjson"]
WireJSON(o) == [kind |-> "json", obj |-> o]

\* base64.StdEncoding.DecodeString succeeds (the empty string decodes to no bytes)
Base64OK(w) == w.kind # "badb64"

\* json.Unmarshal succeeds
JSONOK(w) == w.kind = "json"

\* the value json.Unmarshal leaves in a struct field: the key's value, or the
\* field's zero value when the key is absent
Field(o, key, zero) == IF key \in DOMAIN o THEN o[key] ELSE zero

ZeroRequirements ==
    [Scheme |-> "", Network |-> "", Amount |-> "", Asset |-> "", PayTo |-> "",
     MaxTimeoutSeconds |-> 0, Extra |-> <<>>]

\* json.Marshal of a PaymentRequirements: maxTimeoutSeconds and extra are omitempty
RequirementsToJSON(q) ==
    LET keys == {"scheme", "network", "amount", "asset", "payTo"}
                \cup (IF q.MaxTimeoutSeconds # 0 THEN {"maxTimeoutSeconds"} ELSE {})
                \cup (IF q.Extra # <<>> THEN {"extra"} ELSE {})
    IN  [k \in keys |->
            CASE k = "scheme" -> q.Scheme
              [] k = "network" -> q.Network
              [] k = "amount" -> q.Amount
              [] k = "asset" -> q.Asset
              [] k = "payTo" -> q.PayTo
              [] k = "maxTimeoutSeconds" -> q.MaxTimeoutSeconds
              [] k = "extra" -> q.Extra]

\* json.Unmarshal into a PaymentRequirements
RequirementsFromJSON(o) ==
    [Scheme |-> Field(o, "scheme", ""),
     Network |-> Field(o, "network", ""),
     Amount |-> Field(o, "amount", ""),
     Asset |-> Field(o, "asset", ""),
     PayTo |-> Field(o, "payTo", ""),
     MaxTimeoutSeconds |-> Field(o, "maxTimeoutSeconds", 0),
     Extra |-> Field(o, "extra", <<>>)]

\* json.Marshal of a PaymentRequiredResponse
PaymentRequiredToJSON(p) ==
    [x402Version |-> p.X402Version,
     error |-> p.Error,
     accepts |-> [i \in 1..Len(p.Accepts) |-> RequirementsToJSON(p.Accepts[i])]]

\* json.Unmarshal into a PaymentRequiredResponse
PaymentRequiredFromJSON(o) ==
    [X402Version |-> Field(o, "x402Version", 0),
     Error |-> Field(o, "error", ""),
     Accepts |-> LET a == Field(o, "accepts", <<>>)
                 IN  [i \in 1..Len(a) |-> RequirementsFromJSON(a[i])]]

\* json.Marshal of a PaymentResponse: all but success are omitempty
PaymentResponseToJSON(p) ==
    LET keys == {"success"}
                \cup (IF p.Transaction # "" THEN {"transaction"} ELSE {})
                \cup (IF p.Network # "" THEN {"network"} ELSE {})
                \cup (IF p.Payer # "" THEN {"payer"} ELSE {})
                \cup (IF p.ErrorReason # "" THEN {"errorReason"} ELSE {})
    IN  [k \in keys |->
            CASE k = "success" -> p.Success
              [] k = "transaction" -> p.Transaction
              [] k = "network" -> p.Network
              [] k = "payer" -> p.Payer
              [] k = "errorReason" -> p.ErrorReason]

\* json.Unmarshal into a PaymentResponse
PaymentResponseFromJSON(o) ==
    [Success |-> Field(o, "success", FALSE),
     Transaction |-> Field(o, "transaction", ""),
     Network |-> Field(o, "network", ""),
     Payer |-> Field(o, "payer", ""),
     ErrorReason |-> Field(o, "errorReason", "")]

\* DecodePaymentResponse: (response, error)
DecodePaymentResponse(w) ==
    IF ~Base64OK(w) \/ ~JSONOK(w) THEN [err |-> TRUE, val |-> <<>>]
    ELSE [err |-> FALSE, val |-> <<PaymentResponseFromJSON(w.obj)>>]

\* DecodePaymentRequirements (gRPC): (response, error)
DecodePaymentRequirements(w) ==
    IF ~Base64OK(w) \/ ~JSONOK(w) THEN [err |-> TRUE, val |-> <<>>]
    ELSE [err |-> FALSE, val |-> <<PaymentRequiredFromJSON(w.obj)>>]

\* json.Marshal of a PaymentPayload: extensions is omitempty, a nil payload
\* is written as null
PayloadToJSON(p) ==
    LET keys == {"x402Version", "accepted", "payload"}
                \cup (IF p.Extensions # <<>> THEN {"extensions"} ELSE {})
    IN  [k \in keys |->
            CASE k = "x402Version" -> p.X402Version
              [] k = "accepted" -> RequirementsToJSON(p.Accepted)
              [] k = "payload" -> p.Payload
              [] k = "extensions" -> p.Extensions]

\* a faulty reading, for comparison: the extensions are dropped
PayloadFromJSONNoExtensions(o) ==
    [X402Version |-> Field(o, "x402Version", 0),
     Accepted |-> RequirementsFromJSON(Field(o, "accepted", << >>)),
     Payload |-> Field(o, "payload", <<>>),
     Extensions |-> <<>>]

\* json.Unmarshal into a PaymentPayload
PayloadFromJSON(o) ==
    [X402Version |-> Field(o, "x402Version", 0),
     Accepted |-> RequirementsFromJSON(Field(o, "accepted", << >>)),
     Payload |-> Field(o, "payload", <<>>),
     Extensions |-> Field(o, "extensions", <<>>)]

DecodeError == [err |-> TRUE, val |-> <<>>]

Decoded(v) == [err |-> FALSE, val |-> <<v>>]

\* a faulty parser, for comparison: the protocol version is not looked at
parseAnyVersion(header) ==
    IF ~Base64OK(header) THEN DecodeError
    ELSE IF ~JSONOK(header) THEN DecodeError
    ELSE LET p == PayloadFromJSON(header.obj)
         IN  IF p.Payload = <<>> THEN DecodeError
             ELSE Decoded(p)

\* parsePaymentPayload (HTTP, PAYMENT-SIGNATURE)
parsePaymentPayload(header) ==
    IF ~Base64OK(header) THEN DecodeError
    ELSE IF ~JSONOK(header) THEN DecodeError
    ELSE LET p == PayloadFromJSON(header.obj)
         IN  IF p.X402Version < 2 THEN DecodeError
             ELSE IF p.Payload = <<>> THEN DecodeError
             ELSE Decoded(p)

\* parseLegacyPayment (HTTP, X-PAYMENT): decode a V1 payment and lift it to
\* the V2 shape, Accepted filled from the server's requirements
parseLegacyPayment(header, reqs) ==
    IF ~Base64OK(header) THEN DecodeError
    ELSE IF ~JSONOK(header) THEN DecodeError
    ELSE LET o == header.obj
             version == Field(o, "x402Version", 0)
             scheme == Field(o, "scheme", "")
             network == Field(o, "network", "")
             pl == Field(o, "payload", <<>>)
         IN  IF version = 0 THEN DecodeError
             ELSE IF scheme = "" THEN DecodeError
             ELSE IF network = "" THEN DecodeError
             ELSE IF pl = <<>> THEN DecodeError
             ELSE Decoded([X402Version |-> version,
                           Accepted |-> IF reqs # <<>>
                                        THEN [ZeroRequirements EXCEPT
                                                !.Scheme = scheme, !.Network = network,
                                                !.Amount = reqs[1].Amount,
                                                !.Asset = reqs[1].Asset,
                                                !.PayTo = reqs[1].PayTo]
                                        ELSE [ZeroRequirements EXCEPT
                                                !.Scheme = scheme, !.Network = network],
                           Payload |-> pl,
                           Extensions |-> <<>>])

\* DecodePaymentPayload (gRPC, payment-signature)
DecodePaymentPayload(encoded) ==
    IF ~Base64OK(encoded) THEN DecodeError
    ELSE IF ~JSONOK(encoded) THEN DecodeError
    ELSE LET p == PayloadFromJSON(encoded.obj)
         IN  IF p.Payload = <<>> THEN DecodeError
             ELSE Decoded(p)

\* DecodeLegacyPayment (gRPC, x402-payment)
DecodeLegacyPayment(encoded) ==
    IF ~Base64OK(encoded) THEN DecodeError
    ELSE IF ~JSONOK(encoded) THEN DecodeError
    ELSE LET o == encoded.obj
             version == Field(o, "x402Version", 0)
             scheme == Field(o, "scheme", "")
             network == Field(o, "network", "")
             pl == Field(o, "payload", <<>>)
         IN  IF version = 0 THEN DecodeError
             ELSE IF scheme = "" THEN DecodeError
             ELSE IF network = "" THEN DecodeError
             ELSE IF pl = <<>> THEN DecodeError
             ELSE Decoded([X402Version |-> version,
                           Accepted |-> [ZeroRequirements EXCEPT
                                           !.Scheme = scheme, !.Network = network],
                           Payload |-> pl,
                           Extensions |-> <<>>])

\* EncodePaymentPayload (HTTP and gRPC): base64 of the JSON of the payload
EncodePaymentPayload(p) == WireJSON(PayloadToJSON(p))

\* EncodePaymentResponse (gRPC) / json.Marshal and base64 (HTTP) of a PaymentResponse
PaymentResponseWire(p) == WireJSON(PaymentResponseToJSON(p))

\* json.Marshal of a V1 Payment
PaymentToJSON(p) ==
    [x402Version |-> p.X402Version, scheme |-> p.Scheme, network |-> p.Network,
     payload |-> p.Payload]

\* EncodePayment (V1)
EncodePayment(p) == WireJSON(PaymentToJSON(p))

\* parsePayment / DecodePayment (V1)
parsePayment(w) ==
    IF ~Base64OK(w) THEN DecodeError
    ELSE IF ~JSONOK(w) THEN DecodeError
    ELSE LET payment == [X402Version |-> Field(w.obj, "x402Version", 0),
                         Scheme |-> Field(w.obj, "scheme", ""),
                         Network |-> Field(w.obj, "network", ""),
                         Payload |-> Field(w.obj, "payload", <<>>)]
         IN  IF payment.X402Version = 0 THEN DecodeError
             ELSE IF payment.Scheme = "" THEN DecodeError
             ELSE IF payment.Network = "" THEN DecodeError
             ELSE IF payment.Payload = <<>> THEN DecodeError
             ELSE Decoded(payment)

\* ExtractPaymentFromMetadata: (payload, isV2, err); md.Get yields the list of
\* values under a key, and a key with a value is used even if the value is ""
ExtractPaymentFromMetadata(md) ==
    IF md.sig # <<>>
    THEN LET d == DecodePaymentPayload(md.sig[1])
         IN  [payload |-> d.val, isV2 |-> TRUE, err |-> d.err]
    ELSE IF md.legacy # <<>>
    THEN LET d == DecodeLegacyPayment(md.legacy[1])
         IN  [payload |-> d.val, isV2 |-> FALSE, err |-> d.err]
    ELSE [payload |-> <<>>, isV2 |-> FALSE, err |-> TRUE]

(***************************************************************************)
(* Requirements and responses                                              *)
(***************************************************************************)
\* buildRequirementsFromRule (HTTP): the first accepted token; nil without tokens
buildRequirementsFromRule(p) ==
    IF Len(p.AcceptedTokens) = 0 THEN <<>>
    ELSE LET token == p.AcceptedTokens[1]
         IN  << [ZeroRequirements EXCEPT
                   !.Scheme = "exact", !.Network = token.Network, !.Amount = p.Amount,
                   !.Asset = token.AssetContract, !.PayTo = token.Recipient] >>

\* BuildPaymentRequirements (gRPC): one entry per accepted token
BuildPaymentRequirements(p) ==
    [i \in 1..Len(p.AcceptedTokens) |->
        LET token == p.AcceptedTokens[i]
        IN  [ZeroRequirements EXCEPT
               !.Scheme = "exact", !.Network = token.Network, !.Amount = p.Amount,
               !.Asset = token.AssetContract, !.PayTo = token.Recipient]]

\* the accepts list of the HTTP 402 body
HTTPAccepts(p, c) ==
    [i \in 1..Len(p.AcceptedTokens) |->
        LET token == p.AcceptedTokens[i]
        IN  [Scheme |-> "exact", Network |-> token.Network, Amount |-> p.Amount,
             Asset |-> token.AssetContract, PayTo |-> token.Recipient,
             MaxTimeoutSeconds |-> c.ValidityDuration,
             Extra |-> << [name |-> token.TokenName, version |-> "2"] >>]]

BrowserIndicators == {"Mozilla/", "Chrome/", "Safari/", "Firefox/", "Edge/", "Opera/"}

\* a faulty test, for comparison: every client with a User-Agent is a browser
isBrowserAnyAgent(h) == h.ua # <<>>

\* isBrowserRequest: the User-Agent, a sequence of words, contains an indicator
isBrowserRequest(h) ==
    IF h.ua = <<>> THEN FALSE
    ELSE \E i \in 1..Len(h.ua) : h.ua[i] \in BrowserIndicators

\* w.Header().Set(k, v)
SetHeader(h, k, v) == [x \in DOMAIN h \cup {k} |-> IF x = k THEN v ELSE h[x]]

NoHeaders == [x \in {} |-> WireEmpty]

\* the response before anything is written
NoResponse == [status |-> "", hdr |-> NoHeaders, body |-> <<>>]

\* a faulty answer, for comparison: the requirements go into the body only
HTTPPaymentRequiredBodyOnly(w, h, p, c) ==
    IF c.CustomPaywallHTML # "" /\ isBrowserRequest(h)
    THEN [status |-> "402",
          hdr |-> SetHeader(w.hdr, "Content-Type", "text/html; charset=utf-8"),
          body |-> << [html |-> c.CustomPaywallHTML] >>]
    ELSE LET response == [X402Version |-> 2, Error |-> "Payment required",
                          Accepts |-> HTTPAccepts(p, c)]
         IN  [status |-> "402",
              hdr |-> SetHeader(w.hdr, "Content-Type", "application/json"),
              body |-> << [json |-> PaymentRequiredToJSON(response)] >>]

\* sendPaymentRequired (HTTP)
HTTPPaymentRequired(w, h, p, c) ==
    IF c.CustomPaywallHTML # "" /\ isBrowserRequest(h)
    THEN [status |-> "402",
          hdr |-> SetHeader(w.hdr, "Content-Type", "text/html; charset=utf-8"),
          body |-> << [html |-> c.CustomPaywallHTML] >>]
    ELSE LET response == [X402Version |-> 2, Error |-> "Payment required",
                          Accepts |-> HTTPAccepts(p, c)]
             obj == PaymentRequiredToJSON(response)
         IN  [status |-> "402",
              hdr |-> SetHeader(SetHeader(w.hdr, "PAYMENT-REQUIRED", WireJSON(obj)),
                                "Content-Type", "application/json"),
              body |-> << [json |-> obj] >>]

\* sendError (HTTP)
HTTPError(w, statusCode, message) ==
    [status |-> statusCode,
     hdr |-> SetHeader(w.hdr, "Content-Type", "application/json"),
     body |-> << [json |-> [error |-> message]] >>]

\* EncodePaymentRequirements (gRPC)
EncodePaymentRequirements(accepts) ==
    WireJSON(PaymentRequiredToJSON([X402Version |-> 2, Error |-> "payment required",
                                    Accepts |-> accepts]))

\* sendPaymentRequired (gRPC): RESOURCE_EXHAUSTED, the message is the encoded list
GRPCPaymentRequired(w, p) ==
    [status |-> "ResourceExhausted", hdr |-> w.hdr,
     body |-> << EncodePaymentRequirements(BuildPaymentRequirements(p)) >>]

\* status.Error(code, text)
GRPCError(w, code, text) ==
    [status |-> code, hdr |-> w.hdr, body |-> << [text |-> text] >>]

\* a faulty context, for comparison: the payer is taken from the settlement
ContextFromSettlement(vr, q, sr) ==
    [Verified |-> TRUE,
     PayerAddress |-> sr.PayerAddress,
     Amount |-> vr.Amount,
     TokenSymbol |-> vr.TokenSymbol,
     Network |-> q.Network,
     TransactionHash |-> sr.TransactionHash,
     SettledAt |-> sr.SettledAt]

\* PaymentContext built from the verification and the settlement results
NewPaymentContext(vr, q, sr) ==
    [Verified |-> TRUE,
     PayerAddress |-> vr.PayerAddress,
     Amount |-> vr.Amount,
     TokenSymbol |-> vr.TokenSymbol,
     Network |-> q.Network,
     TransactionHash |-> sr.TransactionHash,
     SettledAt |-> sr.SettledAt]

\* a faulty lookup, for comparison: a context is always reported as found
GetPaymentAlwaysFound(ctx) == [found |-> TRUE, val |-> ctx]

\* GetPaymentFromContext: (payment, ok); ctx is what the handler's context
\* holds under PaymentContextKey, <<>> when it holds nothing
GetPaymentFromContext(ctx) == [found |-> ctx # <<>>, val |-> ctx]

\* RequirePayment: (payment, err)
RequirePayment(ctx) ==
    LET g == GetPaymentFromContext(ctx)
    IN  IF ~g.found THEN [err |-> "payment context not found", val |-> <<>>]
        ELSE IF ~g.val[1].Verified THEN [err |-> "payment not verified", val |-> <<>>]
        ELSE [err |-> "", val |-> g.val]

\* the settlement receipt: base64 of the JSON of the PaymentResponse
EncodePaymentResponse(sr) ==
    WireJSON(PaymentResponseToJSON([Success |-> TRUE,
                                    Transaction |-> sr.TransactionHash,
                                    Network |-> sr.Network,
                                    Payer |-> sr.PayerAddress,
                                    ErrorReason |-> ""]))

(***************************************************************************)
(* What the environment may do: requests and the verifier's answers        *)
(***************************************************************************)
Reqs == {"r1", "r2"}

Transports == {"http", "unary", "stream"}

PathPaid == <<"/", "a">>
PathWild == <<"/", "a", "/", "b">>
PathSkip == <<"/", "h">>
PathFree == <<"x">>

RequestIdents == {PathPaid, PathWild, PathSkip, PathFree}

RulePaid(amount) == [Amount |-> amount, AcceptedTokens |-> <<TokenA, TokenB>>,
                     Description |-> <<"p">>]

RuleWild(amount) == [Amount |-> amount, AcceptedTokens |-> <<TokenB>>,
                     Description |-> <<"w">>]

\* The rule-level amount read by the builders is not constrained by Validate.
RuleAmounts == {"", "1000000"}

PaywallChoices == {"", "<html>pay</html>"}

ServerConfigs ==
    { [Verifier |-> TRUE,
       EndpointPricing |-> (PathPaid :> RulePaid(a)) @@ (<<"/", "a", "/", "*">> :> RuleWild(a)),
       MethodPricing |-> (PathPaid :> RulePaid(a)) @@ (<<"/", "a", "/", "*">> :> RuleWild(a)),
       DefaultPricing |-> <<>>,
       ValidityDuration |-> DefaultValiditySeconds,
       SkipPaths |-> << PathSkip >>,
       SkipMethods |-> << PathSkip >>,
       CustomPaywallHTML |-> html] : a \in RuleAmounts, html \in PaywallChoices }

\* credentials a client may send under the V2 key
V2Good ==
    WireJSON([x402Version |-> 2,
              accepted |-> [scheme |-> "exact", network |-> TokenA.Network,
                            amount |-> TokenA.Amount, asset |-> TokenA.AssetContract,
                            payTo |-> TokenA.Recipient],
              payload |-> <<"sig-v2">>])

V2LowVersion ==
    WireJSON([x402Version |-> 1,
              accepted |-> [scheme |-> "exact", network |-> TokenA.Network,
                            amount |-> TokenA.Amount, asset |-> TokenA.AssetContract,
                            payTo |-> TokenA.Recipient],
              payload |-> <<"sig-v2">>])

V2NoPayload ==
    WireJSON([x402Version |-> 2,
              accepted |-> [scheme |-> "exact", network |-> TokenA.Network,
                            amount |-> TokenA.Amount, asset |-> TokenA.AssetContract,
                            payTo |-> TokenA.Recipient]])

\* a well-formed credential that accepts other terms than any rule offers
V2OtherTerms ==
    WireJSON([x402Version |-> 2,
              accepted |-> [scheme |-> "exact", network |-> TokenA.Network,
                            amount |-> "1", asset |-> TokenA.AssetContract,
                            payTo |-> "0xAttacker"],
              payload |-> <<"sig-v2">>])

\* a well-formed credential that accepts the second option of the paid rule
V2SecondOption ==
    WireJSON([x402Version |-> 2,
              accepted |-> [scheme |-> "exact", network |-> TokenB.Network,
                            amount |-> "1000000", asset |-> TokenB.AssetContract,
                            payTo |-> TokenB.Recipient],
              payload |-> <<"sig-v2">>])

SigWires ==
    {WireEmpty, WireBadB64, WireBadJSON, V2Good, V2LowVersion, V2NoPayload, V2OtherTerms,
     V2SecondOption}

\* credentials a client may send under the V1 key
V1Good ==
    WireJSON([x402Version |-> 1, scheme |-> "exact", network |-> "base-sepolia",
              payload |-> <<"sig-v1">>])

V1NoScheme ==
    WireJSON([x402Version |-> 1, network |-> "base-sepolia", payload |-> <<"sig-v1">>])

LegacyWires == {WireBadB64, V1Good, V1NoScheme}

UserAgents == { <<>>, <<"curl/">>, <<"Mozilla/", "5.0">>, <<"Opera/", "9.80">> }

Optional(S) == {<<>>} \cup {<<x>> : x \in S}

\* x-payment-* metadata a caller may put on a call itself
ClaimedPayment ==
    [k \in {"x-payment-verified", "x-payment-payer", "x-payment-amount"} |->
        CASE k = "x-payment-verified" -> "true"
          [] k = "x-payment-payer" -> "0xMallory"
          [] k = "x-payment-amount" -> "1000000"]

\* the headers of an HTTP request / the incoming metadata of a gRPC call;
\* xpay holds the x-payment-* entries of the metadata
RequestHeaders(t) ==
    IF t = "http"
    THEN [hasMD : {TRUE}, sig : Optional(SigWires), legacy : Optional(LegacyWires),
          ua : UserAgents, xpay : {NoHeaders}]
    ELSE [hasMD : {TRUE}, sig : Optional(SigWires), legacy : Optional(LegacyWires),
          ua : {<<>>}, xpay : {NoHeaders}]
         \cup {[hasMD |-> FALSE, sig |-> <<>>, legacy |-> <<>>, ua |-> <<>>,
                xpay |-> NoHeaders]}
         \cup {[hasMD |-> TRUE, sig |-> s, legacy |-> <<>>, ua |-> <<>>,
                xpay |-> ClaimedPayment] : s \in {<<>>, <<V2Good>>}}

Payers == {"0xPayer", "0xOther"}

ZeroVerification ==
    [Valid |-> FALSE, Reason |-> "", PayerAddress |-> "", Amount |-> "", TokenSymbol |-> ""]

\* what Verify may return: an error, a rejection with a reason, an acceptance
VerifyAnswers ==
    {[err |-> TRUE, res |-> ZeroVerification]}
    \cup {[err |-> FALSE, res |-> [ZeroVerification EXCEPT !.Reason = why]] :
             why \in {"", "insufficient balance"}}
    \cup {[err |-> FALSE,
           res |-> [Valid |-> TRUE, Reason |-> "", PayerAddress |-> p,
                    Amount |-> "1000000", TokenSymbol |-> "USDC"]] : p \in Payers}

ZeroSettlement ==
    [TransactionHash |-> "", Status |-> "", SettledAt |-> "", Amount |-> "",
     PayerAddress |-> "", RecipientAddress |-> "", Network |-> ""]

\* what Settle may return: an error or a settlement
SettleAnswers ==
    {[err |-> TRUE, res |-> ZeroSettlement]}
    \cup {[err |-> FALSE,
           res |-> [TransactionHash |-> t, Status |-> "success", SettledAt |-> "T1",
                    Amount |-> "1000000", PayerAddress |-> p,
                    RecipientAddress |-> "0xRecipient", Network |-> n]] :
             t \in {"0xabc", "0xdef"}, p \in Payers, n \in {"eip155:84532", ""}}

\* what the wrapped handler may do: succeed or fail
HandlerOutcomes == {"ok", "err"}

(***************************************************************************)
(* The decisions taken on the verifier's answers (the same three tests in  *)
(* the HTTP middleware and in both interceptors)                           *)
(***************************************************************************)
\* faulty tests, for comparison: the error or the rejection goes unnoticed
ErrorIgnored(ans) == FALSE

RejectionIgnored(ans) == FALSE

FailureIgnored(ans) == FALSE

\* if err != nil after Verify
VerifyErrored(ans) == ans.err

\* if !verifyResult.Valid
VerifyRejected(ans) == ~ans.res.Valid

\* if err != nil after Settle
SettleErrored(ans) == ans.err

\* a faulty store, for comparison: the value is written for every request
UpdAll(f, r, v) == [o \in DOMAIN f |-> v]

Upd(f, r, v) == [f EXCEPT ![r] = v]

\* http.Header.Get: the value, or "" when the header is absent
HeaderGet(v) == IF v = <<>> THEN WireEmpty ELSE v[1]

\* the call Verify(ctx, payload, requirements) / Settle(ctx, payload, requirements)
Call(p, q) == [payload |-> p, requirements |-> q]

\* a faulty choice, for comparison: the receipt always goes under the V2 key
HTTPReceiptKeyV2Only(v2) == "PAYMENT-RESPONSE"

\* the header that carries the receipt: by the key the credential came under
HTTPReceiptKey(v2) == IF v2 THEN "PAYMENT-RESPONSE" ELSE "X-PAYMENT-RESPONSE"

\* the trailer that carries the receipt: by the key the credential came under
GRPCReceiptKey(v2) == IF v2 THEN "payment-response" ELSE "x402-payment-response"

(***************************************************************************)
(* HTTP middleware                                                         *)
(***************************************************************************)
\* cfg.MatchEndpoint; without a rule the next handler runs on the request as is
HTTPResolve(r) ==
    /\ transport[r] = "http"
    /\ state[r] = "Unchecked"
    /\ \E order \in KeyOrders(cfg.EndpointPricing) :
          LET m == MatchEndpoint(cfg, ident[r], order)
          IN  IF ~m.requiresPayment
              THEN /\ state' = Upd(state, r, "PassThrough")
                   /\ handlerCalls' = Upd(handlerCalls, r, handlerCalls[r] + 1)
                   /\ handlerResult' = Upd(handlerResult, r, "running")
                   /\ UNCHANGED rule
              ELSE /\ state' = Upd(state, r, "AwaitingPayment")
                   /\ rule' = Upd(rule, r, m.rule)
                   /\ UNCHANGED <<handlerCalls, handlerResult>>
    /\ UNCHANGED <<cfg, server, codec, evm, streamMsgs, resolverVars,
                   transport, ident, hdrs, isV2, payload, requirements,
                   verifyCalls, settleCalls, verifyResult, settleResult, handlerCtx, resp>>

\* header detection, decoding, and the call of Verify
HTTPExtract(r) ==
    /\ transport[r] = "http"
    /\ state[r] = "AwaitingPayment"
    /\ LET first == HeaderGet(hdrs[r].sig)
           v2 == first.kind # "empty"
           paymentHeader == IF v2 THEN first ELSE HeaderGet(hdrs[r].legacy)
       IN  IF paymentHeader.kind = "empty"
           THEN /\ state' = Upd(state, r, "Rejected")
                /\ resp' = Upd(resp, r, HTTPPaymentRequired(resp[r], hdrs[r], rule[r][1], cfg))
                /\ UNCHANGED <<isV2, payload, requirements, verifyCalls>>
           ELSE LET reqs == buildRequirementsFromRule(rule[r][1])
                    d == IF v2 THEN parsePaymentPayload(paymentHeader)
                         ELSE parseLegacyPayment(paymentHeader, reqs)
                IN  /\ isV2' = Upd(isV2, r, v2)
                    /\ IF d.err
                       THEN /\ state' = Upd(state, r, "Rejected")
                            /\ resp' = Upd(resp, r,
                                   HTTPError(resp[r], "400", "Invalid payment header"))
                            /\ UNCHANGED <<payload, requirements, verifyCalls>>
                       ELSE /\ state' = Upd(state, r, "Verifying")
                            /\ payload' = Upd(payload, r, d.val)
                            /\ requirements' = Upd(requirements, r, reqs)
                            /\ verifyCalls' = Upd(verifyCalls, r,
                                   Append(verifyCalls[r], Call(d.val, reqs)))
                            /\ UNCHANGED resp
    /\ UNCHANGED <<cfg, server, codec, evm, streamMsgs, resolverVars,
                   transport, ident, hdrs, rule, settleCalls,
                   verifyResult, settleResult, handlerCalls, handlerCtx, handlerResult>>

\* a different middleware, for comparison: a credential another request has
\* already settled is not settled again
HTTPVerifyReturnDedup(r) ==
    /\ transport[r] = "http"
    /\ state[r] = "Verifying"
    /\ \E ans \in VerifyAnswers :
          /\ verifyResult' = Upd(verifyResult, r, <<ans>>)
          /\ IF VerifyErrored(ans)
             THEN /\ state' = Upd(state, r, "VerificationFailed")
                  /\ resp' = Upd(resp, r,
                         HTTPError(resp[r], "500", "Payment verification error"))
                  /\ UNCHANGED settleCalls
             ELSE IF VerifyRejected(ans)
                     \/ \E o \in Reqs \ {r} :
                           \E k \in 1..Len(settleCalls[o]) :
                              settleCalls[o][k].payload = payload[r]
             THEN /\ state' = Upd(state, r, "VerificationFailed")
                  /\ resp' = Upd(resp, r,
                         HTTPPaymentRequired(resp[r], hdrs[r], rule[r][1], cfg))
                  /\ UNCHANGED settleCalls
             ELSE /\ state' = Upd(state, r, "Settling")
                  /\ settleCalls' = Upd(settleCalls, r,
                         Append(settleCalls[r], Call(payload[r], requirements[r])))
                  /\ UNCHANGED resp
    /\ UNCHANGED <<cfg, server, codec, evm, streamMsgs, resolverVars,
                   transport, ident, hdrs, rule, isV2, payload,
                   requirements, verifyCalls, settleResult, handlerCalls, handlerCtx,
                   handlerResult>>

\* a different middleware, for comparison: after a rejected payment the
\* request waits for another credential instead of being answered
HTTPVerifyReturnRetry(r) ==
    /\ transport[r] = "http"
    /\ state[r] = "Verifying"
    /\ \E ans \in VerifyAnswers :
          /\ verifyResult' = Upd(verifyResult, r, <<ans>>)
          /\ IF VerifyErrored(ans)
             THEN /\ state' = Upd(state, r, "VerificationFailed")
                  /\ resp' = Upd(resp, r,
                         HTTPError(resp[r], "500", "Payment verification error"))
                  /\ UNCHANGED settleCalls
             ELSE IF VerifyRejected(ans)
             THEN /\ state' = Upd(state, r, "AwaitingPayment")
                  /\ UNCHANGED <<resp, settleCalls>>
             ELSE /\ state' = Upd(state, r, "Settling")
                  /\ settleCalls' = Upd(settleCalls, r,
                         Append(settleCalls[r], Call(payload[r], requirements[r])))
                  /\ UNCHANGED resp
    /\ UNCHANGED <<cfg, server, codec, evm, streamMsgs, resolverVars,
                   transport, ident, hdrs, rule, isV2, payload,
                   requirements, verifyCalls, settleResult, handlerCalls, handlerCtx,
                   handlerResult>>

\* Verify returns; on a valid payment Settle is called
HTTPVerifyReturn(r) ==
    /\ transport[r] = "http"
    /\ state[r] = "Verifying"
    /\ \E ans \in VerifyAnswers :
          /\ verifyResult' = Upd(verifyResult, r, <<ans>>)
          /\ IF VerifyErrored(ans)
             THEN /\ state' = Upd(state, r, "VerificationFailed")
                  /\ resp' = Upd(resp, r,
                         HTTPError(resp[r], "500", "Payment verification error"))
                  /\ UNCHANGED settleCalls
             ELSE IF VerifyRejected(ans)
             THEN /\ state' = Upd(state, r, "VerificationFailed")
                  /\ resp' = Upd(resp, r,
                         HTTPPaymentRequired(resp[r], hdrs[r], rule[r][1], cfg))
                  /\ UNCHANGED settleCalls
             ELSE /\ state' = Upd(state, r, "Settling")
                  /\ settleCalls' = Upd(settleCalls, r,
                         Append(settleCalls[r], Call(payload[r], requirements[r])))
                  /\ UNCHANGED resp
    /\ UNCHANGED <<cfg, server, codec, evm, streamMsgs, resolverVars,
                   transport, ident, hdrs, rule, isV2, payload,
                   requirements, verifyCalls, settleResult, handlerCalls, handlerCtx,
                   handlerResult>>

\* Settle returns; on success the context is built, the receipt header is set
\* and the next handler is called
HTTPSettleReturn(r) ==
    /\ transport[r] = "http"
    /\ state[r] = "Settling"
    /\ \E ans \in SettleAnswers :
          /\ settleResult' = Upd(settleResult, r, <<ans>>)
          /\ IF SettleErrored(ans)
             THEN /\ state' = Upd(state, r, "SettlementFailed")
                  /\ resp' = Upd(resp, r,
                         HTTPError(resp[r], "500", "Payment settlement error"))
                  /\ UNCHANGED <<handlerCalls, handlerCtx, handlerResult>>
             ELSE /\ state' = Upd(state, r, "Settled")
                  /\ handlerCtx' = Upd(handlerCtx, r,
                         << NewPaymentContext(verifyResult[r][1].res, requirements[r][1],
                                              ans.res) >>)
                  /\ resp' = Upd(resp, r,
                         [resp[r] EXCEPT !.hdr =
                             SetHeader(@, HTTPReceiptKey(isV2[r]),
                                       EncodePaymentResponse(ans.res))])
                  /\ handlerCalls' = Upd(handlerCalls, r, handlerCalls[r] + 1)
                  /\ handlerResult' = Upd(handlerResult, r, "running")
    /\ UNCHANGED <<cfg, server, codec, evm, streamMsgs, resolverVars,
                   transport, ident, hdrs, rule, isV2, payload,
                   requirements, verifyCalls, settleCalls, verifyResult>>

\* the next handler writes its response: 200 when it succeeds, 500 when it fails
HTTPHandlerReturn(r) ==
    /\ transport[r] = "http"
    /\ handlerResult[r] = "running"
    /\ \E out \in HandlerOutcomes :
          /\ handlerResult' = Upd(handlerResult, r, out)
          /\ resp' = Upd(resp, r,
                 [resp[r] EXCEPT !.status = IF out = "ok" THEN "200" ELSE "500",
                                 !.body = << [handler |-> out] >>])
    /\ UNCHANGED <<cfg, server, codec, evm, streamMsgs, resolverVars,
                   transport, ident, hdrs, state, rule, isV2, payload,
                   requirements, verifyCalls, settleCalls, verifyResult, settleResult,
                   handlerCalls, handlerCtx>>

(***************************************************************************)
(* gRPC interceptors.  The unary and the stream interceptor are two copies *)
(* of the same code; GRPC* are the steps, for the transport t.             *)
(***************************************************************************)
\* cfg.MatchMethod; without a rule the handler runs on the call as is
GRPCResolve(t, r) ==
    /\ transport[r] = t
    /\ state[r] = "Unchecked"
    /\ \E order \in KeyOrders(cfg.MethodPricing) :
          LET m == MatchMethod(cfg, ident[r], order)
          IN  IF ~m.requiresPayment
              THEN /\ state' = Upd(state, r, "PassThrough")
                   /\ handlerCalls' = Upd(handlerCalls, r, handlerCalls[r] + 1)
                   /\ handlerResult' = Upd(handlerResult, r, "running")
                   /\ UNCHANGED rule
              ELSE /\ state' = Upd(state, r, "AwaitingPayment")
                   /\ rule' = Upd(rule, r, m.rule)
                   /\ UNCHANGED <<handlerCalls, handlerResult>>
    /\ UNCHANGED <<cfg, server, codec, evm, streamMsgs, resolverVars,
                   transport, ident, hdrs, isV2, payload, requirements,
                   verifyCalls, settleCalls, verifyResult, settleResult, handlerCtx, resp>>

\* a different treatment, for comparison: a credential that does not decode is
\* answered with INVALID_ARGUMENT
GRPCExtractInvalidArgument(t, r) ==
    /\ transport[r] = t
    /\ state[r] = "AwaitingPayment"
    /\ IF ~hdrs[r].hasMD
       THEN /\ state' = Upd(state, r, "Rejected")
            /\ resp' = Upd(resp, r, GRPCPaymentRequired(resp[r], rule[r][1]))
            /\ UNCHANGED <<isV2, payload, requirements, verifyCalls>>
       ELSE LET md == hdrs[r]
                x == ExtractPaymentFromMetadata(hdrs[r])
            IN  IF x.err
                THEN /\ state' = Upd(state, r, "Rejected")
                     /\ resp' = Upd(resp, r,
                            IF md.sig = <<>> /\ md.legacy = <<>>
                            THEN GRPCPaymentRequired(resp[r], rule[r][1])
                            ELSE GRPCError(resp[r], "InvalidArgument", "invalid payment"))
                     /\ UNCHANGED <<isV2, payload, requirements, verifyCalls>>
                ELSE LET accepts == BuildPaymentRequirements(rule[r][1])
                     IN  /\ isV2' = Upd(isV2, r, x.isV2)
                         /\ IF Len(accepts) = 0
                            THEN /\ state' = Upd(state, r, "Rejected")
                                 /\ resp' = Upd(resp, r, GRPCError(resp[r], "Internal",
                                        "no payment requirements configured"))
                                 /\ UNCHANGED <<payload, requirements, verifyCalls>>
                            ELSE /\ state' = Upd(state, r, "Verifying")
                                 /\ payload' = Upd(payload, r, x.payload)
                                 /\ requirements' = Upd(requirements, r, <<accepts[1]>>)
                                 /\ verifyCalls' = Upd(verifyCalls, r,
                                        Append(verifyCalls[r],
                                               Call(x.payload, <<accepts[1]>>)))
                                 /\ UNCHANGED resp
    /\ UNCHANGED <<cfg, server, codec, evm, streamMsgs, resolverVars,
                   transport, ident, hdrs, rule, settleCalls,
                   verifyResult, settleResult, handlerCalls, handlerCtx, handlerResult>>

\* metadata, ExtractPaymentFromMetadata, BuildPaymentRequirements, the call of Verify
GRPCExtract(t, r) ==
    /\ transport[r] = t
    /\ state[r] = "AwaitingPayment"
    /\ IF ~hdrs[r].hasMD
       THEN /\ state' = Upd(state, r, "Rejected")
            /\ resp' = Upd(resp, r, GRPCPaymentRequired(resp[r], rule[r][1]))
            /\ UNCHANGED <<isV2, payload, requirements, verifyCalls>>
       ELSE LET x == ExtractPaymentFromMetadata(hdrs[r])
            IN  IF x.err
                THEN /\ state' = Upd(state, r, "Rejected")
                     /\ resp' = Upd(resp, r, GRPCPaymentRequired(resp[r], rule[r][1]))
                     /\ UNCHANGED <<isV2, payload, requirements, verifyCalls>>
                ELSE LET accepts == BuildPaymentRequirements(rule[r][1])
                     IN  /\ isV2' = Upd(isV2, r, x.isV2)
                         /\ IF Len(accepts) = 0
                            THEN /\ state' = Upd(state, r, "Rejected")
                                 /\ resp' = Upd(resp, r, GRPCError(resp[r], "Internal",
                                        "no payment requirements configured"))
                                 /\ UNCHANGED <<payload, requirements, verifyCalls>>
                            ELSE /\ state' = Upd(state, r, "Verifying")
                                 /\ payload' = Upd(payload, r, x.payload)
                                 /\ requirements' = Upd(requirements, r, <<accepts[1]>>)
                                 /\ verifyCalls' = Upd(verifyCalls, r,
                                        Append(verifyCalls[r],
                                               Call(x.payload, <<accepts[1]>>)))
                                 /\ UNCHANGED resp
    /\ UNCHANGED <<cfg, server, codec, evm, streamMsgs, resolverVars,
                   transport, ident, hdrs, rule, settleCalls,
                   verifyResult, settleResult, handlerCalls, handlerCtx, handlerResult>>

\* Verify returns; on a valid payment Settle is called
GRPCVerifyReturn(t, r) ==
    /\ transport[r] = t
    /\ state[r] = "Verifying"
    /\ \E ans \in VerifyAnswers :
          /\ verifyResult' = Upd(verifyResult, r, <<ans>>)
          /\ IF VerifyErrored(ans)
             THEN /\ state' = Upd(state, r, "VerificationFailed")
                  /\ resp' = Upd(resp, r,
                         GRPCError(resp[r], "Internal", "payment verification error"))
                  /\ UNCHANGED settleCalls
             ELSE IF VerifyRejected(ans)
             THEN /\ state' = Upd(state, r, "VerificationFailed")
                  /\ resp' = Upd(resp, r, GRPCPaymentRequired(resp[r], rule[r][1]))
                  /\ UNCHANGED settleCalls
             ELSE /\ state' = Upd(state, r, "Settling")
                  /\ settleCalls' = Upd(settleCalls, r,
                         Append(settleCalls[r], Call(payload[r], requirements[r])))
                  /\ UNCHANGED resp
    /\ UNCHANGED <<cfg, server, codec, evm, streamMsgs, resolverVars,
                   transport, ident, hdrs, rule, isV2, payload,
                   requirements, verifyCalls, settleResult, handlerCalls, handlerCtx,
                   handlerResult>>

\* Settle returns; on success the context is built and the handler is called
GRPCSettleReturn(t, r) ==
    /\ transport[r] = t
    /\ state[r] = "Settling"
    /\ \E ans \in SettleAnswers :
          /\ settleResult' = Upd(settleResult, r, <<ans>>)
          /\ IF SettleErrored(ans)
             THEN /\ state' = Upd(state, r, "SettlementFailed")
                  /\ resp' = Upd(resp, r,
                         GRPCError(resp[r], "Unavailable", "payment settlement failed"))
                  /\ UNCHANGED <<handlerCalls, handlerCtx, handlerResult>>
             ELSE /\ state' = Upd(state, r, "Settled")
                  /\ handlerCtx' = Upd(handlerCtx, r,
                         << NewPaymentContext(verifyResult[r][1].res, requirements[r][1],
                                              ans.res) >>)
                  /\ handlerCalls' = Upd(handlerCalls, r, handlerCalls[r] + 1)
                  /\ handlerResult' = Upd(handlerResult, r, "running")
                  /\ UNCHANGED resp
    /\ UNCHANGED <<cfg, server, codec, evm, streamMsgs, resolverVars,
                   transport, ident, hdrs, rule, isV2, payload,
                   requirements, verifyCalls, settleCalls, verifyResult>>

\* a faulty return, for comparison: after a settlement the receipt trailer is
\* set whether the handler succeeded or not
GRPCHandlerReturnReceiptAlways(t, r) ==
    /\ transport[r] = t
    /\ handlerResult[r] = "running"
    /\ \E out \in HandlerOutcomes :
          /\ handlerResult' = Upd(handlerResult, r, out)
          /\ LET w == IF out = "err"
                      THEN GRPCError(resp[r], "HandlerError", "handler error")
                      ELSE [resp[r] EXCEPT !.status = "OK"]
             IN  IF state[r] = "PassThrough"
                 THEN resp' = Upd(resp, r, w)
                 ELSE resp' = Upd(resp, r,
                          [w EXCEPT !.hdr = SetHeader(@, GRPCReceiptKey(isV2[r]),
                                            EncodePaymentResponse(settleResult[r][1].res))])
    /\ UNCHANGED <<cfg, server, codec, evm, streamMsgs, resolverVars,
                   transport, ident, hdrs, state, rule, isV2, payload,
                   requirements, verifyCalls, settleCalls, verifyResult, settleResult,
                   handlerCalls, handlerCtx>>

\* the handler returns: its error is returned as it is; after a settlement a
\* successful handler gets the receipt as a trailer
GRPCHandlerReturn(t, r) ==
    /\ transport[r] = t
    /\ handlerResult[r] = "running"
    /\ \E out \in HandlerOutcomes :
          /\ handlerResult' = Upd(handlerResult, r, out)
          /\ IF out = "err"
             THEN resp' = Upd(resp, r, GRPCError(resp[r], "HandlerError", "handler error"))
             ELSE IF state[r] = "PassThrough"
             THEN resp' = Upd(resp, r, [resp[r] EXCEPT !.status = "OK"])
             ELSE resp' = Upd(resp, r,
                      [resp[r] EXCEPT
                          !.status = "OK",
                          !.hdr = SetHeader(@, GRPCReceiptKey(isV2[r]),
                                            EncodePaymentResponse(settleResult[r][1].res))])
    /\ UNCHANGED <<cfg, server, codec, evm, streamMsgs, resolverVars,
                   transport, ident, hdrs, state, rule, isV2, payload,
                   requirements, verifyCalls, settleCalls, verifyResult, settleResult,
                   handlerCalls, handlerCtx>>

UnaryResolve(r) == GRPCResolve("unary", r)
UnaryExtract(r) == GRPCExtract("unary", r)
UnaryVerifyReturn(r) == GRPCVerifyReturn("unary", r)
UnarySettleReturn(r) == GRPCSettleReturn("unary", r)
UnaryHandlerReturn(r) == GRPCHandlerReturn("unary", r)

StreamResolve(r) == GRPCResolve("stream", r)
StreamExtract(r) == GRPCExtract("stream", r)
StreamVerifyReturn(r) == GRPCVerifyReturn("stream", r)
StreamSettleReturn(r) == GRPCSettleReturn("stream", r)
\* a faulty stream interceptor, for comparison: the receipt trailer is set
\* whether the stream handler succeeded or not
StreamHandlerReturnReceiptAlways(r) == GRPCHandlerReturnReceiptAlways("stream", r)

StreamHandlerReturn(r) == GRPCHandlerReturn("stream", r)

\* a different stream, for comparison: every message is verified again
StreamMessageMetered(r) ==
    /\ transport[r] = "stream"
    /\ handlerResult[r] = "running"
    /\ streamMsgs[r] < MaxMessages
    /\ streamMsgs' = Upd(streamMsgs, r, streamMsgs[r] + 1)
    /\ verifyCalls' = Upd(verifyCalls, r,
           Append(verifyCalls[r], Call(payload[r], requirements[r])))
    /\ UNCHANGED <<cfg, server, codec, evm, resolverVars, transport, ident, hdrs, state, rule,
                   isV2, payload, requirements, settleCalls, verifyResult,
                   settleResult, handlerCalls, handlerCtx, handlerResult, resp>>

\* the stream handler sends or receives a message: SendMsg and RecvMsg are
\* those of the embedded ServerStream, Context() returns the stored context
StreamMessage(r) ==
    /\ transport[r] = "stream"
    /\ handlerResult[r] = "running"
    /\ streamMsgs[r] < MaxMessages
    /\ streamMsgs' = Upd(streamMsgs, r, streamMsgs[r] + 1)
    /\ UNCHANGED <<cfg, server, codec, evm, resolverVars, transport, ident, hdrs, state, rule,
                   isV2, payload, requirements, verifyCalls, settleCalls, verifyResult,
                   settleResult, handlerCalls, handlerCtx, handlerResult, resp>>

(***************************************************************************)
(* Resolver harness                                                        *)
(***************************************************************************)
LookupEndpoint ==
    /\ lookupKind = "endpoint"
    /\ Len(lookupLog) < MaxLookups
    /\ \E order \in KeyOrders(cfg.EndpointPricing) :
          lookupLog' = Append(lookupLog, MatchEndpoint(cfg, lookupId, order))
    /\ UNCHANGED <<cfg, server, codec, evm, lookupKind, lookupId, requestVars>>

LookupMethod ==
    /\ lookupKind = "method"
    /\ Len(lookupLog) < MaxLookups
    /\ \E order \in KeyOrders(cfg.MethodPricing) :
          lookupLog' = Append(lookupLog, MatchMethod(cfg, lookupId, order))
    /\ UNCHANGED <<cfg, server, codec, evm, lookupKind, lookupId, requestVars>>

(***************************************************************************)
(* Specifications                                                          *)
(***************************************************************************)
\* the headers of a request that carries nothing
BareHeaders == [hasMD |-> TRUE, sig |-> <<>>, legacy |-> <<>>, ua |-> <<>>,
                xpay |-> NoHeaders]

\* request "r1" arrives on transport t for identifier i with headers h; the
\* other requests have not been sent
OneRequest(t, i, h) ==
    /\ transport = [r \in Reqs |-> IF r = "r1" THEN t ELSE "http"]
    /\ ident = [r \in Reqs |-> IF r = "r1" THEN i ELSE PathFree]
    /\ hdrs = [r \in Reqs |-> IF r = "r1" THEN h ELSE BareHeaders]
    /\ state = [r \in Reqs |-> IF r = "r1" THEN "Unchecked" ELSE "NotSent"]

\* nothing has been done yet for any request
Fresh ==
    /\ rule = [r \in Reqs |-> <<>>]
    /\ isV2 = [r \in Reqs |-> FALSE]
    /\ payload = [r \in Reqs |-> <<>>]
    /\ requirements = [r \in Reqs |-> <<>>]
    /\ verifyCalls = [r \in Reqs |-> <<>>]
    /\ settleCalls = [r \in Reqs |-> <<>>]
    /\ verifyResult = [r \in Reqs |-> <<>>]
    /\ settleResult = [r \in Reqs |-> <<>>]
    /\ handlerCalls = [r \in Reqs |-> 0]
    /\ handlerCtx = [r \in Reqs |-> <<>>]
    /\ handlerResult = [r \in Reqs |-> "none"]
    /\ resp = [r \in Reqs |-> NoResponse]
    /\ streamMsgs = [r \in Reqs |-> 0]

\* the verifier harness at rest
IdleEVM == [stage |-> "idle"]

\* the codec harness at rest
IdleCodec == [kind |-> "none", stage |-> "idle"]

NoLookup ==
    /\ lookupKind = "endpoint"
    /\ lookupId = PathFree
    /\ lookupLog = <<>>

\* one request to a server built from a valid configuration
Init ==
    /\ cfg \in ServerConfigs
    /\ ConfigValid(cfg)
    /\ server = "serving"
    /\ NoLookup
    /\ \E t \in Transports : \E i \in RequestIdents : \E h \in RequestHeaders(t) :
          OneRequest(t, i, h)
    /\ Fresh
    /\ codec = IdleCodec
    /\ evm = IdleEVM

Step(r) ==
    \/ HTTPResolve(r)
    \/ HTTPExtract(r)
    \/ HTTPVerifyReturn(r)
    \/ HTTPSettleReturn(r)
    \/ HTTPHandlerReturn(r)
    \/ UnaryResolve(r)
    \/ UnaryExtract(r)
    \/ UnaryVerifyReturn(r)
    \/ UnarySettleReturn(r)
    \/ UnaryHandlerReturn(r)
    \/ StreamResolve(r)
    \/ StreamExtract(r)
    \/ StreamVerifyReturn(r)
    \/ StreamSettleReturn(r)
    \/ StreamHandlerReturn(r)
    \/ StreamMessage(r)

Next == \E r \in Reqs : Step(r)

Spec == Init /\ [][Next]_vars

\* every call that is made returns: Verify, Settle and the handler answer,
\* and the middleware goes on after each answer
SpecLive == Spec /\ \A r \in Reqs : WF_vars(Step(r))

\* the resolver called on every configuration and identifier of the harness
InitResolve ==
    /\ cfg \in HarnessConfigs
    /\ ConfigValid(cfg)
    /\ server = "serving"
    /\ lookupKind \in {"endpoint", "method"}
    /\ lookupId \in Identifiers
    /\ lookupLog = <<>>
    /\ transport = [r \in Reqs |-> "http"]
    /\ ident = [r \in Reqs |-> PathFree]
    /\ hdrs = [r \in Reqs |-> BareHeaders]
    /\ state = [r \in Reqs |-> "NotSent"]
    /\ Fresh
    /\ codec = IdleCodec
    /\ evm = IdleEVM

NextResolve == LookupEndpoint \/ LookupMethod

SpecResolve == InitResolve /\ [][NextResolve]_vars

(***************************************************************************)
(* Construction: PaymentMiddleware, UnaryServerInterceptor and             *)
(* StreamServerInterceptor validate the Config they are given and panic on *)
(* an invalid one; only a constructed server receives requests.            *)
(***************************************************************************)
\* a Config as TestConfigValidation builds them, valid or not
BaseConfig ==
    [Verifier |-> TRUE,
     EndpointPricing |-> (PathPaid :> RulePaid("1000000")),
     MethodPricing |-> (PathPaid :> RulePaid("1000000")),
     DefaultPricing |-> <<>>,
     ValidityDuration |-> DefaultValiditySeconds,
     SkipPaths |-> << PathSkip >>,
     SkipMethods |-> << PathSkip >>,
     CustomPaywallHTML |-> ""]

TokenFields == {"Network", "Symbol", "Recipient", "AssetContract", "Amount"}

\* rules that PricingRule.Validate rejects: no token, or a token with an
\* empty required field
BadRules ==
    {[Amount |-> "1000000", AcceptedTokens |-> <<>>, Description |-> <<"b">>]}
    \cup {[Amount |-> "1000000",
           AcceptedTokens |-> <<TokenA, [TokenB EXCEPT ![f] = ""]>>,
           Description |-> <<"b">>] : f \in TokenFields}

CandidateConfigs ==
    {BaseConfig,
     [BaseConfig EXCEPT !.DefaultPricing = <<DefaultRule>>],
     [BaseConfig EXCEPT !.Verifier = FALSE]}
    \cup {[BaseConfig EXCEPT !.EndpointPricing = (PathPaid :> b)] : b \in BadRules}
    \cup {[BaseConfig EXCEPT !.MethodPricing = (PathPaid :> b)] : b \in BadRules}
    \cup {[BaseConfig EXCEPT !.DefaultPricing = <<b>>] : b \in BadRules}

\* if err := cfg.Validate(); err != nil { panic(...) }
Construct ==
    /\ server = "new"
    /\ server' = IF ConfigValid(cfg) THEN "serving" ELSE "panicked"
    /\ UNCHANGED <<cfg, codec, evm, resolverVars, requestVars>>

\* a request reaches the constructed handler
Arrive ==
    /\ server = "serving"
    /\ state["r1"] = "NotSent"
    /\ \E t \in Transports : \E i \in RequestIdents : \E h \in RequestHeaders(t) :
          /\ transport' = Upd(transport, "r1", t)
          /\ ident' = Upd(ident, "r1", i)
          /\ hdrs' = Upd(hdrs, "r1", h)
          /\ state' = Upd(state, "r1", "Unchecked")
    /\ UNCHANGED <<cfg, server, codec, evm, streamMsgs, resolverVars,
                   rule, isV2, payload, requirements,
                   verifyCalls, settleCalls, verifyResult, settleResult, handlerCalls,
                   handlerCtx, handlerResult, resp>>

InitConstruct ==
    /\ cfg \in CandidateConfigs
    /\ server = "new"
    /\ NoLookup
    /\ transport = [r \in Reqs |-> "http"]
    /\ ident = [r \in Reqs |-> PathFree]
    /\ hdrs = [r \in Reqs |-> BareHeaders]
    /\ state = [r \in Reqs |-> "NotSent"]
    /\ Fresh
    /\ codec = IdleCodec
    /\ evm = IdleEVM

NextConstruct == Construct \/ Arrive \/ Next

SpecConstruct == InitConstruct /\ [][NextConstruct]_vars

(***************************************************************************)
(* The codec on its own: a value is encoded, the encoded form is decoded   *)
(***************************************************************************)
\* requirements as a client or a server may hold them
RequirementsInputs ==
    {ZeroRequirements,
     [ZeroRequirements EXCEPT !.Scheme = "exact", !.Network = TokenA.Network,
                              !.Amount = TokenA.Amount, !.Asset = TokenA.AssetContract,
                              !.PayTo = TokenA.Recipient],
     [Scheme |-> "exact", Network |-> TokenB.Network, Amount |-> TokenB.Amount,
      Asset |-> TokenB.AssetContract, PayTo |-> TokenB.Recipient,
      MaxTimeoutSeconds |-> DefaultValiditySeconds,
      Extra |-> << [name |-> TokenB.TokenName, version |-> "2"] >>]}

\* accepts lists of up to two entries
RequirementsLists ==
    {<<>>} \cup {<<a>> : a \in RequirementsInputs}
           \cup {<<a, b>> : a, b \in RequirementsInputs}

\* WithPaymentMetadata: the gRPC metadata made from the PaymentContext of the
\* HTTP-derived context (<<>> when the context carries none)
WithPaymentMetadata(payment) ==
    IF payment = <<>> THEN NoHeaders
    ELSE IF ~payment[1].Verified THEN NoHeaders
    ELSE LET p == payment[1]
             keys == {"x-payment-verified", "x-payment-payer", "x-payment-amount",
                      "x-payment-network"}
                     \cup (IF p.TokenSymbol # "" THEN {"x-payment-token"} ELSE {})
                     \cup (IF p.TransactionHash # "" THEN {"x-payment-tx-hash"} ELSE {})
         IN  [k \in keys |->
                 CASE k = "x-payment-verified" -> "true"
                   [] k = "x-payment-payer" -> p.PayerAddress
                   [] k = "x-payment-amount" -> p.Amount
                   [] k = "x-payment-network" -> p.Network
                   [] k = "x-payment-token" -> p.TokenSymbol
                   [] k = "x-payment-tx-hash" -> p.TransactionHash]

\* GetPaymentFromGRPCContext: (payment, found) read back from the metadata
GetPaymentFromGRPCContext(md) ==
    IF "x-payment-verified" \notin DOMAIN md THEN [found |-> FALSE, val |-> <<>>]
    ELSE IF md["x-payment-verified"] # "true" THEN [found |-> FALSE, val |-> <<>>]
    ELSE [found |-> TRUE,
          val |-> << [Verified |-> TRUE,
                      PayerAddress |-> Field(md, "x-payment-payer", ""),
                      Amount |-> Field(md, "x-payment-amount", ""),
                      TokenSymbol |-> Field(md, "x-payment-token", ""),
                      Network |-> Field(md, "x-payment-network", ""),
                      TransactionHash |-> Field(md, "x-payment-tx-hash", ""),
                      SettledAt |-> ""] >>]

\* what the HTTP-derived context may carry: no PaymentContext, or one
GatewayInputs ==
    {<<>>} \cup
    {<< [Verified |-> v, PayerAddress |-> p, Amount |-> "1000000", TokenSymbol |-> sym,
         Network |-> "eip155:84532", TransactionHash |-> t, SettledAt |-> at] >> :
        v \in BOOLEAN, p \in {"", "0xPayer"}, sym \in {"", "USDC"},
        t \in {"", "0xabc"}, at \in {"", "T1"}}

\* the values of the wire types the harness encodes
CodecInputs ==
    {[kind |-> k, val |-> [X402Version |-> v, Accepted |-> a, Payload |-> pl,
                           Extensions |-> e]] :
        k \in {"payload-http", "payload-grpc"}, v \in {0, 1, 2},
        a \in RequirementsInputs, pl \in {<<>>, <<"sig-v2">>},
        e \in {<<>>, <<"ext">>}}
    \cup {[kind |-> "requirements", val |-> q] : q \in RequirementsLists}
    \cup {[kind |-> "response",
           val |-> [Success |-> ok, Transaction |-> t, Network |-> n, Payer |-> p,
                    ErrorReason |-> why]] :
        ok \in BOOLEAN, t \in {"", "0xabc"}, n \in {"", "eip155:84532"},
        p \in {"", "0xPayer"}, why \in {"", "settlement failed"}}
    \cup {[kind |-> "payment",
           val |-> [X402Version |-> v, Scheme |-> sc, Network |-> n, Payload |-> pl]] :
        v \in {0, 1}, sc \in {"", "exact"}, n \in {"", "base-sepolia"},
        pl \in {<<>>, <<"sig-v1">>}}
    \cup {[kind |-> "gateway", val |-> c] : c \in GatewayInputs}

\* the encoder of each wire type
CodecEncode ==
    /\ codec.stage = "value"
    /\ codec' = [codec EXCEPT
            !.stage = "encoded",
            !.wire = CASE codec.kind \in {"payload-http", "payload-grpc"} ->
                            EncodePaymentPayload(codec.val)
                       [] codec.kind = "requirements" -> EncodePaymentRequirements(codec.val)
                       [] codec.kind = "response" -> PaymentResponseWire(codec.val)
                       [] codec.kind = "payment" -> EncodePayment(codec.val)
                       [] codec.kind = "gateway" -> WithPaymentMetadata(codec.val)]
    /\ UNCHANGED <<cfg, server, evm, resolverVars, requestVars>>

\* the decoder of each wire type
CodecDecode ==
    /\ codec.stage = "encoded"
    /\ codec' = [codec EXCEPT
            !.stage = "decoded",
            !.out = CASE codec.kind = "payload-http" -> parsePaymentPayload(codec.wire)
                      [] codec.kind = "payload-grpc" -> DecodePaymentPayload(codec.wire)
                      [] codec.kind = "requirements" ->
                            LET d == DecodePaymentRequirements(codec.wire)
                            IN  IF d.err THEN DecodeError ELSE Decoded(d.val[1].Accepts)
                      [] codec.kind = "response" -> DecodePaymentResponse(codec.wire)
                      [] codec.kind = "payment" -> parsePayment(codec.wire)
                      [] codec.kind = "gateway" -> GetPaymentFromGRPCContext(codec.wire)]
    /\ UNCHANGED <<cfg, server, evm, resolverVars, requestVars>>

InitCodec ==
    /\ cfg = BaseConfig
    /\ server = "serving"
    /\ NoLookup
    /\ transport = [r \in Reqs |-> "http"]
    /\ ident = [r \in Reqs |-> PathFree]
    /\ hdrs = [r \in Reqs |-> BareHeaders]
    /\ state = [r \in Reqs |-> "NotSent"]
    /\ Fresh
    /\ evm = IdleEVM
    /\ \E x \in CodecInputs :
          codec = [kind |-> x.kind, stage |-> "value", val |-> x.val,
                   wire |-> WireEmpty, out |-> DecodeError]

NextCodec == CodecEncode \/ CodecDecode

SpecCodec == InitCodec /\ [][NextCodec]_vars

(***************************************************************************)
(* The EVM verifier on its own: Verify and then Settle are called on a     *)
(* payload, the facilitator answers each call                              *)
(***************************************************************************)
GoodAuthorization ==
    [from |-> "0xPayer", to |-> "0xRecipient", value |-> "1000000", nonce |-> "0x01"]

\* what PaymentPayload.Payload may hold after json.Unmarshal into interface{}:
\* nil, a JSON string, or a JSON object with some of the keys of EVMPayload
EVMPayloads ==
    {[kind |-> "null"], [kind |-> "string"],
     [kind |-> "object", obj |-> [authorization |-> <<GoodAuthorization>>]],
     [kind |-> "object", obj |-> [signature |-> "", authorization |-> <<GoodAuthorization>>]],
     [kind |-> "object", obj |-> [signature |-> "0xsig"]],
     [kind |-> "object", obj |-> [signature |-> "0xsig", authorization |-> <<>>]]}
    \cup {[kind |-> "object",
           obj |-> [signature |-> "0xsig",
                    authorization |-> << [GoodAuthorization EXCEPT ![k] = ""] >>]] :
             k \in {"from", "to", "value", "nonce"}}
    \cup {[kind |-> "object",
           obj |-> [signature |-> "0xsig",
                    authorization |-> << [GoodAuthorization EXCEPT !.from = p] >>]] :
             p \in Payers}

\* what an HTTP call to the facilitator may give: a transport error, or a
\* status with a body that decodes to a JSON object (<<>> when it does not)
FacilitatorVerifyAnswers ==
    {[transportErr |-> TRUE, status |-> 0, body |-> <<>>],
     [transportErr |-> FALSE, status |-> 500, body |-> << [isValid |-> TRUE] >>],
     [transportErr |-> FALSE, status |-> 200, body |-> <<>>],
     [transportErr |-> FALSE, status |-> 200, body |-> << [isValid |-> TRUE] >>],
     [transportErr |-> FALSE, status |-> 200,
      body |-> << [isValid |-> FALSE, invalidReason |-> "insufficient funds"] >>],
     [transportErr |-> FALSE, status |-> 200, body |-> << [payer |-> "0xPayer"] >>]}

FacilitatorSettleAnswers ==
    {[transportErr |-> TRUE, status |-> 0, body |-> <<>>],
     [transportErr |-> FALSE, status |-> 500,
      body |-> << [success |-> TRUE, transaction |-> "0xabc"] >>],
     [transportErr |-> FALSE, status |-> 200, body |-> <<>>],
     [transportErr |-> FALSE, status |-> 200,
      body |-> << [success |-> TRUE, transaction |-> "0xabc",
                   network |-> "eip155:84532"] >>],
     [transportErr |-> FALSE, status |-> 200,
      body |-> << [success |-> FALSE, errorReason |-> "nonce already used"] >>],
     [transportErr |-> FALSE, status |-> 200, body |-> << [transaction |-> "0xabc"] >>]}

\* parseEVMPayload: (payload, error); the error is "" when there is none.
\* The payload came out of json.Unmarshal, so json.Marshal of it succeeds.
parseEVMPayload(pl) ==
    IF pl.kind = "string"
    THEN [err |-> "failed to unmarshal EVM payload", val |-> <<>>]
    ELSE LET o == IF pl.kind = "object" THEN pl.obj ELSE [x \in {} |-> ""]
             Signature == Field(o, "signature", "")
             Authorization == Field(o, "authorization", <<>>)
         IN  IF Signature = "" THEN [err |-> "signature is required", val |-> <<>>]
             ELSE IF Authorization = <<>>
             THEN [err |-> "authorization is required", val |-> <<>>]
             ELSE LET auth == [From |-> Field(Authorization[1], "from", ""),
                               To |-> Field(Authorization[1], "to", ""),
                               Value |-> Field(Authorization[1], "value", ""),
                               Nonce |-> Field(Authorization[1], "nonce", "")]
                  IN  IF auth.From = "" \/ auth.To = "" \/ auth.Value = "" \/ auth.Nonce = ""
                      THEN [err |-> "authorization missing required fields", val |-> <<>>]
                      ELSE [err |-> "",
                            val |-> << [Signature |-> Signature, Authorization |-> auth] >>]

\* FacilitatorClient.Verify: (response, error)
FacilitatorVerify(ans) ==
    IF ans.transportErr \/ ans.status # 200 \/ ans.body = <<>>
    THEN [err |-> TRUE, resp |-> <<>>]
    ELSE [err |-> FALSE,
          resp |-> << [IsValid |-> Field(ans.body[1], "isValid", FALSE),
                       InvalidReason |-> Field(ans.body[1], "invalidReason", ""),
                       Payer |-> Field(ans.body[1], "payer", "")] >>]

\* FacilitatorClient.Settle: (response, error)
FacilitatorSettle(ans) ==
    IF ans.transportErr \/ ans.status # 200 \/ ans.body = <<>>
    THEN [err |-> TRUE, resp |-> <<>>]
    ELSE [err |-> FALSE,
          resp |-> << [Success |-> Field(ans.body[1], "success", FALSE),
                       ErrorReason |-> Field(ans.body[1], "errorReason", ""),
                       Payer |-> Field(ans.body[1], "payer", ""),
                       Transaction |-> Field(ans.body[1], "transaction", ""),
                       Network |-> Field(ans.body[1], "network", "")] >>]

\* a strict verifier, for comparison: a payload that does not parse is an error
VerifyStrict(pl, ans) ==
    LET p == parseEVMPayload(pl)
    IN  IF p.err # "" THEN [err |-> TRUE, res |-> <<>>, contacted |-> FALSE]
        ELSE LET f == FacilitatorVerify(ans)
             IN  IF f.err THEN [err |-> TRUE, res |-> <<>>, contacted |-> TRUE]
                 ELSE [err |-> FALSE,
                       res |-> << [Valid |-> f.resp[1].IsValid,
                                   Reason |-> f.resp[1].InvalidReason,
                                   PayerAddress |-> p.val[1].Authorization.From,
                                   Amount |-> p.val[1].Authorization.Value,
                                   TokenSymbol |-> ""] >>,
                       contacted |-> TRUE]

\* EVMVerifier.Verify: (result, error), and whether the facilitator was
\* contacted; the reason "invalid payload: <error>" is written as <error>
Verify(pl, ans) ==
    LET p == parseEVMPayload(pl)
    IN  IF p.err # ""
        THEN [err |-> FALSE,
              res |-> << [ZeroVerification EXCEPT !.Reason = p.err] >>,
              contacted |-> FALSE]
        ELSE LET f == FacilitatorVerify(ans)
             IN  IF f.err THEN [err |-> TRUE, res |-> <<>>, contacted |-> TRUE]
                 ELSE [err |-> FALSE,
                       res |-> << [Valid |-> f.resp[1].IsValid,
                                   Reason |-> f.resp[1].InvalidReason,
                                   PayerAddress |-> p.val[1].Authorization.From,
                                   Amount |-> p.val[1].Authorization.Value,
                                   TokenSymbol |-> ""] >>,
                       contacted |-> TRUE]

\* EVMVerifier.Settle: (result, error), and whether the facilitator was contacted
Settle(pl, ans) ==
    LET p == parseEVMPayload(pl)
    IN  IF p.err # "" THEN [err |-> TRUE, res |-> <<>>, contacted |-> FALSE]
        ELSE LET f == FacilitatorSettle(ans)
             IN  IF f.err THEN [err |-> TRUE, res |-> <<>>, contacted |-> TRUE]
                 ELSE IF ~f.resp[1].Success
                 THEN [err |-> TRUE, res |-> <<>>, contacted |-> TRUE]
                 ELSE [err |-> FALSE,
                       res |-> << [TransactionHash |-> f.resp[1].Transaction,
                                   Status |-> "success",
                                   SettledAt |-> "T1",
                                   Amount |-> p.val[1].Authorization.Value,
                                   PayerAddress |-> p.val[1].Authorization.From,
                                   RecipientAddress |-> p.val[1].Authorization.To,
                                   Network |-> f.resp[1].Network] >>,
                       contacted |-> TRUE]

\* Verify is called on the payload; the facilitator, if asked, answers
CallVerify ==
    /\ evm.stage = "ready"
    /\ \E ans \in FacilitatorVerifyAnswers :
          evm' = [evm EXCEPT !.stage = "verified", !.verifyAnswer = <<ans>>,
                             !.verify = << Verify(evm.payload, ans) >>]
    /\ UNCHANGED <<cfg, server, codec, resolverVars, requestVars>>

\* Settle is called on the payload; the facilitator, if asked, answers
CallSettle ==
    /\ evm.stage = "verified"
    /\ \E ans \in FacilitatorSettleAnswers :
          evm' = [evm EXCEPT !.stage = "settled", !.settleAnswer = <<ans>>,
                             !.settle = << Settle(evm.payload, ans) >>]
    /\ UNCHANGED <<cfg, server, codec, resolverVars, requestVars>>

InitVerifier ==
    /\ cfg = BaseConfig
    /\ server = "serving"
    /\ NoLookup
    /\ transport = [r \in Reqs |-> "http"]
    /\ ident = [r \in Reqs |-> PathFree]
    /\ hdrs = [r \in Reqs |-> BareHeaders]
    /\ state = [r \in Reqs |-> "NotSent"]
    /\ Fresh
    /\ codec = IdleCodec
    /\ \E p \in EVMPayloads :
          evm = [stage |-> "ready", payload |-> p, verifyAnswer |-> <<>>,
                 verify |-> <<>>, settleAnswer |-> <<>>, settle |-> <<>>]

NextVerifier == CallVerify \/ CallSettle

SpecVerifier == InitVerifier /\ [][NextVerifier]_vars

(***************************************************************************)
(* Two requests served concurrently by one server: each handler invocation *)
(* runs the steps of its own request, in any interleaving with the other   *)
(***************************************************************************)
\* the headers of the requests: no credential, or the same V2 credential
ConcurrentHeaders == {BareHeaders, [BareHeaders EXCEPT !.sig = <<V2Good>>]}

ConcurrentConfigs ==
    {c \in ServerConfigs :
        c.CustomPaywallHTML = "" /\ c.EndpointPricing[PathPaid].Amount = "1000000"}

InitConcurrent ==
    /\ cfg \in ConcurrentConfigs
    /\ ConfigValid(cfg)
    /\ server = "serving"
    /\ NoLookup
    /\ transport \in [Reqs -> {"http", "unary"}]
    /\ ident \in [Reqs -> {PathPaid, PathFree}]
    /\ hdrs \in [Reqs -> ConcurrentHeaders]
    /\ state = [r \in Reqs |-> "Unchecked"]
    /\ Fresh
    /\ codec = IdleCodec
    /\ evm = IdleEVM

StepConcurrent(r) ==
    \/ HTTPResolve(r)
    \/ HTTPExtract(r)
    \/ HTTPVerifyReturn(r)
    \/ HTTPSettleReturn(r)
    \/ HTTPHandlerReturn(r)
    \/ UnaryResolve(r)
    \/ UnaryExtract(r)
    \/ UnaryVerifyReturn(r)
    \/ UnarySettleReturn(r)
    \/ UnaryHandlerReturn(r)

NextConcurrent == \E r \in Reqs : StepConcurrent(r)

SpecConcurrent == InitConcurrent /\ [][NextConcurrent]_vars

(***************************************************************************)
(* The two interceptors side by side: the same call arrives on the unary   *)
(* and on the stream interceptor of one server                             *)
(***************************************************************************)
\* the incoming metadata of the call: none, one credential under one key, or
\* an undecodable V2 credential next to a V1 credential
InterceptorMetadata ==
    {h \in RequestHeaders("unary") :
        \/ h.sig = <<>>
        \/ h.legacy = <<>>
        \/ (h.sig = <<WireBadB64>> /\ h.legacy = <<V1Good>>)}

\* the paywall page plays no part in gRPC
InterceptorConfigs == {c \in ServerConfigs : c.CustomPaywallHTML = ""}

InitInterceptors ==
    /\ cfg \in InterceptorConfigs
    /\ ConfigValid(cfg)
    /\ server = "serving"
    /\ NoLookup
    /\ \E i \in RequestIdents : \E h \in InterceptorMetadata :
          /\ transport = [r \in Reqs |-> IF r = "r1" THEN "unary" ELSE "stream"]
          /\ ident = [r \in Reqs |-> i]
          /\ hdrs = [r \in Reqs |-> h]
          /\ state = [r \in Reqs |-> "Unchecked"]
    /\ Fresh
    /\ codec = IdleCodec
    /\ evm = IdleEVM

StepInterceptors(r) ==
    \/ UnaryResolve(r)
    \/ UnaryExtract(r)
    \/ UnaryVerifyReturn(r)
    \/ UnarySettleReturn(r)
    \/ UnaryHandlerReturn(r)
    \/ StreamResolve(r)
    \/ StreamExtract(r)
    \/ StreamVerifyReturn(r)
    \/ StreamSettleReturn(r)
    \/ StreamHandlerReturn(r)
    \/ StreamMessage(r)

NextInterceptors == \E r \in Reqs : StepInterceptors(r)

SpecInterceptors == InitInterceptors /\ [][NextInterceptors]_vars

(***************************************************************************)
(* Properties of the request state machine (checked under Spec)            *)
(***************************************************************************)
\* the request's identifier resolved to a pricing rule
RequiresPayment(r) == rule[r] # <<>>

\* Verify returned valid=true and no error
VerifiedOK(r) ==
    /\ verifyResult[r] # <<>>
    /\ ~verifyResult[r][1].err
    /\ verifyResult[r][1].res.Valid

\* Verify returned valid=false and no error
VerifyInvalid(r) ==
    /\ verifyResult[r] # <<>>
    /\ ~verifyResult[r][1].err
    /\ ~verifyResult[r][1].res.Valid

\* Verify returned an error
VerifyFailed(r) == verifyResult[r] # <<>> /\ verifyResult[r][1].err

\* Settle returned without error
SettledOK(r) == settleResult[r] # <<>> /\ ~settleResult[r][1].err

\* Settle returned an error
SettleFailed(r) == settleResult[r] # <<>> /\ settleResult[r][1].err

FailedStates == {"Rejected", "VerificationFailed", "SettlementFailed"}

PaymentRequiredStatus(r) == IF transport[r] = "http" THEN "402" ELSE "ResourceExhausted"

ReceiptKeys == {"PAYMENT-RESPONSE", "X-PAYMENT-RESPONSE", "payment-response",
                "x402-payment-response"}

\* C1: on every transport, for a request whose identifier requires payment,
\* the handler has been invoked only if Verify returned valid without error
\* and Settle returned without error for that request; a request that ended
\* in a failure (no credential, decode failure, invalid, verifier error,
\* settlement error) has a response, its handler was never invoked, and the
\* values dereferenced on the way (requirements, payload) were never nil.
HandlerOnlyAfterSettlement ==
    \A r \in Reqs :
        /\ (RequiresPayment(r) /\ handlerCalls[r] > 0) => (VerifiedOK(r) /\ SettledOK(r))
        /\ state[r] \in FailedStates =>
              /\ handlerCalls[r] = 0
              /\ handlerResult[r] = "none"
              /\ handlerCtx[r] = <<>>
              /\ resp[r].status # ""
        /\ state[r] \in {"Verifying", "Settling", "Settled"} =>
              (requirements[r] # <<>> /\ payload[r] # <<>>)

\* a paid stream call whose handler ran and succeeded
HandlerRanAfterSettlement ==
    \E r \in Reqs :
        /\ transport[r] = "stream"
        /\ RequiresPayment(r)
        /\ VerifiedOK(r) /\ SettledOK(r)
        /\ handlerCalls[r] = 1
        /\ handlerResult[r] = "ok"

\* C2: within one request Verify is called at most once and Settle at most
\* once, Settle has been called only if Verify returned valid without error,
\* and once the request has failed or its handler has returned no step calls
\* Verify or Settle again.
VerifySettleAtMostOnce ==
    /\ [](\A r \in Reqs :
            /\ Len(verifyCalls[r]) <= 1
            /\ Len(settleCalls[r]) <= 1
            /\ settleCalls[r] # <<>> => (verifyCalls[r] # <<>> /\ VerifiedOK(r))
            /\ (VerifyInvalid(r) \/ VerifyFailed(r)) => settleCalls[r] = <<>>)
    /\ [][\A r \in Reqs :
            (state[r] \in FailedStates \/ handlerResult[r] \in {"ok", "err"}) =>
                (verifyCalls'[r] = verifyCalls[r] /\ settleCalls'[r] = settleCalls[r])]_vars

\* a unary call verified and settled once whose handler then failed
HandlerFailedAfterOneSettle ==
    \E r \in Reqs :
        /\ transport[r] = "unary"
        /\ Len(verifyCalls[r]) = 1
        /\ Len(settleCalls[r]) = 1
        /\ handlerResult[r] = "err"

\* the request carries no credential: no V2 key, no V1 key (on gRPC possibly
\* no metadata at all)
NoCredential(r) == hdrs[r].sig = <<>> /\ hdrs[r].legacy = <<>>

\* the request is answered with the HTML paywall instead of the JSON body
PaywallShown(r) ==
    transport[r] = "http" /\ cfg.CustomPaywallHTML # "" /\ isBrowserRequest(hdrs[r])

\* the accepts list offers the tokens of the rule p, in order, each at the
\* amount configured for the token
OffersTokensOf(accepts, p) ==
    /\ Len(accepts) = Len(p.AcceptedTokens)
    /\ \A i \in 1..Len(p.AcceptedTokens) :
          /\ accepts[i].Scheme = "exact"
          /\ accepts[i].Network = p.AcceptedTokens[i].Network
          /\ accepts[i].Asset = p.AcceptedTokens[i].AssetContract
          /\ accepts[i].PayTo = p.AcceptedTokens[i].Recipient
          /\ accepts[i].Amount = p.AcceptedTokens[i].Amount

\* C6: a request to a priced identifier that carries no credential is
\* answered, without a call of the verifier, with HTTP 402 whose JSON body
\* has x402Version 2 and one accepts entry per accepted token of the rule, in
\* rule order, with scheme "exact" and the token's network, asset, payTo and
\* amount; on gRPC with RESOURCE_EXHAUSTED whose message decodes to the same
\* structure.  (Stated for the answers that are not the HTML paywall.)
NoCredentialOffersTokenAmounts ==
    \A r \in Reqs :
        (RequiresPayment(r) /\ NoCredential(r) /\ state[r] = "Rejected"
           /\ ~PaywallShown(r)) =>
            /\ verifyCalls[r] = <<>>
            /\ handlerCalls[r] = 0
            /\ resp[r].status = PaymentRequiredStatus(r)
            /\ LET d == IF transport[r] = "http"
                        THEN Decoded(PaymentRequiredFromJSON(resp[r].body[1].json))
                        ELSE DecodePaymentRequirements(resp[r].body[1])
               IN  /\ ~d.err
                   /\ d.val[1].X402Version = 2
                   /\ OffersTokensOf(d.val[1].Accepts, rule[r][1])

\* C7: for a priced HTTP request with a well-formed PAYMENT-SIGNATURE
\* credential, once Verify returned valid and Settle returned transaction T
\* the handler has been invoked exactly once with a PaymentContext that has
\* Verified=true, TransactionHash=T and the verifier's payer, and the
\* response carries a PAYMENT-RESPONSE header that decodes to success=true,
\* transaction=T.
PaidHTTPRequestServed ==
    \A r \in Reqs :
        (/\ transport[r] = "http"
         /\ RequiresPayment(r)
         /\ hdrs[r].sig # <<>>
         /\ ~parsePaymentPayload(hdrs[r].sig[1]).err
         /\ VerifiedOK(r)
         /\ SettledOK(r)) =>
            LET T == settleResult[r][1].res.TransactionHash
            IN  /\ handlerCalls[r] = 1
                /\ handlerCtx[r] # <<>>
                /\ handlerCtx[r][1].Verified
                /\ handlerCtx[r][1].TransactionHash = T
                /\ handlerCtx[r][1].PayerAddress = verifyResult[r][1].res.PayerAddress
                /\ "PAYMENT-RESPONSE" \in DOMAIN resp[r].hdr
                /\ LET d == DecodePaymentResponse(resp[r].hdr["PAYMENT-RESPONSE"])
                   IN  /\ ~d.err
                       /\ d.val[1].Success
                       /\ d.val[1].Transaction = T

\* a paid HTTP request served, the verifier's payer differing from the payer
\* named by the settlement
PaidHTTPRequestDone ==
    \E r \in Reqs :
        /\ transport[r] = "http"
        /\ hdrs[r].sig = <<V2Good>>
        /\ VerifiedOK(r) /\ SettledOK(r)
        /\ verifyResult[r][1].res.PayerAddress = "0xPayer"
        /\ settleResult[r][1].res.PayerAddress = "0xOther"
        /\ settleResult[r][1].res.TransactionHash = "0xabc"
        /\ handlerResult[r] = "ok"
        /\ resp[r].status = "200"

\* the response the request would get if it carried no credential
NoCredentialResponse(r) ==
    IF transport[r] = "http"
    THEN HTTPPaymentRequired(NoResponse, [hdrs[r] EXCEPT !.sig = <<>>, !.legacy = <<>>],
                             rule[r][1], cfg)
    ELSE GRPCPaymentRequired(NoResponse, rule[r][1])

Processed(r) == state[r] \notin {"NotSent", "Unchecked", "AwaitingPayment", "PassThrough"}

\* the V2 key (PAYMENT-SIGNATURE / payment-signature) is present in the request
V2KeyPresent(r) == hdrs[r].hasMD /\ hdrs[r].sig # <<>>

\* the V2 decoder of the request's transport, applied to the V2 key's value
V2Decoding(r) ==
    IF transport[r] = "http" THEN parsePaymentPayload(hdrs[r].sig[1])
    ELSE DecodePaymentPayload(hdrs[r].sig[1])

V1ReceiptKeys == {"X-PAYMENT-RESPONSE", "x402-payment-response"}

V2ReceiptKeys == {"PAYMENT-RESPONSE", "payment-response"}

\* C11: a priced request in which the V2 key is present, whatever its value
\* and whether or not the V1 key is present too, is processed as V2: the
\* payload handed on is the V2 decoder's reading of the V2 value, a V2 value
\* that does not decode ends the request without a call of the verifier, and
\* no V1 receipt key is ever set.
V2KeyTakesPrecedence ==
    \A r \in Reqs :
        (RequiresPayment(r) /\ V2KeyPresent(r) /\ Processed(r)) =>
            /\ verifyCalls[r] # <<>> =>
                  /\ isV2[r]
                  /\ ~V2Decoding(r).err
                  /\ payload[r] = V2Decoding(r).val
            /\ V2Decoding(r).err => (state[r] = "Rejected" /\ verifyCalls[r] = <<>>)
            /\ DOMAIN resp[r].hdr \cap V1ReceiptKeys = {}

\* the key the request's credential came under: a header with the empty
\* value carries no credential on HTTP; on gRPC a key with a value counts
CredentialKey(r) ==
    IF transport[r] = "http"
    THEN IF hdrs[r].sig # <<>> /\ hdrs[r].sig[1].kind # "empty" THEN "v2"
         ELSE IF hdrs[r].legacy # <<>> /\ hdrs[r].legacy[1].kind # "empty" THEN "v1"
         ELSE "none"
    ELSE IF hdrs[r].sig # <<>> THEN "v2"
         ELSE IF hdrs[r].legacy # <<>> THEN "v1"
         ELSE "none"

\* the receipt keys set in the response
ReceiptSet(r) == DOMAIN resp[r].hdr \cap ReceiptKeys

\* the receipt key that answers the request's credential
ReceiptKeyFor(r) ==
    IF transport[r] = "http"
    THEN (IF CredentialKey(r) = "v2" THEN "PAYMENT-RESPONSE" ELSE "X-PAYMENT-RESPONSE")
    ELSE (IF CredentialKey(r) = "v2" THEN "payment-response" ELSE "x402-payment-response")

\* C12: a receipt key is in a response only if Settle returned success for
\* that request, and then exactly one receipt key is set: the V2 key for a
\* credential that came under the V2 key, the V1 key for a credential that
\* came under the V1 key.
ReceiptKeyFollowsCredential ==
    \A r \in Reqs :
        ReceiptSet(r) # {} =>
            /\ SettledOK(r)
            /\ CredentialKey(r) # "none"
            /\ ReceiptSet(r) = {ReceiptKeyFor(r)}

\* an HTTP request paid under X-PAYMENT alone and answered with
\* X-PAYMENT-RESPONSE
LegacyReceiptSent ==
    \E r \in Reqs :
        /\ transport[r] = "http"
        /\ hdrs[r].sig = <<>>
        /\ hdrs[r].legacy = <<V1Good>>
        /\ SettledOK(r)
        /\ "X-PAYMENT-RESPONSE" \in DOMAIN resp[r].hdr

\* the response keys of one protocol version only
V2OnlyKeys == {"PAYMENT-RESPONSE", "PAYMENT-REQUIRED", "payment-response",
               "payment-required"}

V1OnlyKeys == {"X-PAYMENT-RESPONSE", "x402-payment-response",
               "x402-payment-requirements"}

\* C13: no response to a request whose credential came under the V1 key
\* (success, payment-required after a failed verification, or error) carries
\* a V2-only response key, and no response to a request whose credential
\* came under the V2 key carries a V1-only response key.
VersionSymmetry ==
    \A r \in Reqs :
        /\ CredentialKey(r) = "v1" => DOMAIN resp[r].hdr \cap V2OnlyKeys = {}
        /\ CredentialKey(r) = "v2" => DOMAIN resp[r].hdr \cap V1OnlyKeys = {}

\* C14: on gRPC (unary and stream), after a successful settlement the
\* receipt trailer is set if and only if the handler returned without error:
\* it is not set while the handler runs, it is set once the handler has
\* succeeded, and when the handler fails its error is what the caller gets,
\* without a receipt trailer.
TrailerOnlyAfterHandlerSuccess ==
    \A r \in Reqs :
        (transport[r] \in {"unary", "stream"} /\ SettledOK(r)) =>
            /\ handlerResult[r] = "running" => ReceiptSet(r) = {}
            /\ handlerResult[r] = "ok" =>
                  (ReceiptSet(r) = {GRPCReceiptKey(isV2[r])} /\ resp[r].status = "OK")
            /\ handlerResult[r] = "err" =>
                  /\ ReceiptSet(r) = {}
                  /\ resp[r] = GRPCError(NoResponse, "HandlerError", "handler error")
            /\ ReceiptSet(r) # {} => handlerResult[r] = "ok"

\* a stream call that was settled and whose handler then failed
StreamHandlerFailedAfterSettle ==
    \E r \in Reqs :
        /\ transport[r] = "stream"
        /\ SettledOK(r)
        /\ Len(settleCalls[r]) = 1
        /\ handlerResult[r] = "err"
        /\ resp[r].status = "HandlerError"

\* C15: on HTTP, after a successful settlement, the receipt header
\* (PAYMENT-RESPONSE or X-PAYMENT-RESPONSE) is in the response only if the
\* handler succeeded: the response of a failing handler carries no receipt
\* header.
HeaderOnlyAfterHandlerSuccess ==
    \A r \in Reqs :
        (transport[r] = "http" /\ SettledOK(r) /\ handlerResult[r] = "err") =>
            ReceiptSet(r) = {}

\* the request's identifier is skipped, or is no key of the rule table,
\* matches none of its patterns and there is no default rule
NoPaymentNeeded(r) ==
    LET skips == IF transport[r] = "http" THEN cfg.SkipPaths ELSE cfg.SkipMethods
        table == IF transport[r] = "http" THEN cfg.EndpointPricing ELSE cfg.MethodPricing
    IN  \/ \E k \in 1..Len(skips) : matchPath(ident[r], skips[k])
        \/ /\ \A p \in DOMAIN table : ~matchPath(ident[r], p)
           /\ cfg.DefaultPricing = <<>>

\* C16: when the resolver reports no payment required (identifier skipped,
\* or unmatched with no default rule) the handler is invoked exactly once
\* without a PaymentContext, the verifier is never called, no 402 /
\* RESOURCE_EXHAUSTED is produced and no payment header or trailer is set,
\* also when the request carries a payment credential.
PassThroughUntouched ==
    \A r \in Reqs :
        (NoPaymentNeeded(r) /\ state[r] \notin {"NotSent", "Unchecked"}) =>
            /\ state[r] = "PassThrough"
            /\ rule[r] = <<>>
            /\ handlerCalls[r] = 1
            /\ handlerCtx[r] = <<>>
            /\ verifyCalls[r] = <<>>
            /\ settleCalls[r] = <<>>
            /\ resp[r].status \notin {"402", "ResourceExhausted"}
            /\ DOMAIN resp[r].hdr \cap (ReceiptKeys \cup {"PAYMENT-REQUIRED"}) = {}

\* a unary call to a skipped method that carries a well-formed credential
\* has been handed to the handler, which succeeded
SkippedCallWithCredentialServed ==
    \E r \in Reqs :
        /\ transport[r] = "unary"
        /\ ident[r] = PathSkip
        /\ hdrs[r].sig = <<V2Good>>
        /\ state[r] = "PassThrough"
        /\ handlerResult[r] = "ok"

\* a V2 credential that is not structurally sound: not base64, not JSON,
\* version below 2, or no payload
MalformedV2(w) ==
    \/ w.kind \in {"badb64", "badjson"}
    \/ /\ w.kind = "json"
       /\ \/ "x402Version" \notin DOMAIN w.obj
          \/ "payload" \notin DOMAIN w.obj
          \/ ("x402Version" \in DOMAIN w.obj /\ w.obj.x402Version < 2)

\* a V1 credential that is not structurally sound: not base64, not JSON, or
\* without version, scheme, network or payload
MalformedV1(w) ==
    \/ w.kind \in {"badb64", "badjson"}
    \/ /\ w.kind = "json"
       /\ \E k \in {"x402Version", "scheme", "network", "payload"} : k \notin DOMAIN w.obj

\* the HTTP request carries a credential, and the credential is malformed
HTTPMalformedCredential(r) ==
    /\ transport[r] = "http"
    /\ \/ CredentialKey(r) = "v2" /\ MalformedV2(hdrs[r].sig[1])
       \/ CredentialKey(r) = "v1" /\ MalformedV1(hdrs[r].legacy[1])

\* C18: on HTTP a credential that is present but fails structural decode
\* (invalid base64, invalid JSON, missing required field, V2 version below 2)
\* is answered with 400, not 402 and not 200; the verifier is never called
\* and the handler is never invoked.
MalformedCredentialIsBadRequest ==
    \A r \in Reqs :
        (RequiresPayment(r) /\ Processed(r) /\ HTTPMalformedCredential(r)) =>
            /\ state[r] = "Rejected"
            /\ resp[r].status = "400"
            /\ verifyCalls[r] = <<>>
            /\ handlerCalls[r] = 0

\* an HTTP request whose V2 credential names version 1 has been answered
LowVersionAnswered ==
    \E r \in Reqs :
        /\ transport[r] = "http"
        /\ hdrs[r].sig = <<V2LowVersion>>
        /\ RequiresPayment(r)
        /\ resp[r].status = "400"

\* a V2 credential the gRPC decoder rejects: not base64, not JSON (the empty
\* value included), or no payload
UndecodableV2(w) ==
    \/ w.kind \in {"empty", "badb64", "badjson"}
    \/ w.kind = "json" /\ "payload" \notin DOMAIN w.obj

\* the gRPC call carries a credential, and the credential does not decode
GRPCUndecodableCredential(r) ==
    /\ transport[r] \in {"unary", "stream"}
    /\ hdrs[r].hasMD
    /\ \/ CredentialKey(r) = "v2" /\ UndecodableV2(hdrs[r].sig[1])
       \/ CredentialKey(r) = "v1" /\ MalformedV1(hdrs[r].legacy[1])

MalformedIsInvalidArgument ==
    \A r \in Reqs :
        (RequiresPayment(r) /\ Processed(r) /\ GRPCUndecodableCredential(r)) =>
            /\ resp[r].status = "InvalidArgument"
            /\ resp[r].status # "ResourceExhausted"

\* the V2 key's value declares a version below 2 or carries no payload field
V2VersionLowOrNoPayload(r) ==
    /\ V2KeyPresent(r)
    /\ hdrs[r].sig[1].kind = "json"
    /\ LET o == hdrs[r].sig[1].obj
       IN  \/ Field(o, "x402Version", 0) < 2
           \/ "payload" \notin DOMAIN o

\* C21: on both transports, a credential received under the V2 key whose
\* declared x402Version is below 2, or whose payload field is absent, is
\* rejected at decode and never reaches Verifier.Verify.
V2DecodeValidation ==
    \A r \in Reqs :
        (RequiresPayment(r) /\ V2VersionLowOrNoPayload(r)) =>
            /\ verifyCalls[r] = <<>>
            /\ Processed(r) => state[r] = "Rejected"

\* C22: on both transports a credential under the V1 key is rejected if
\* version, scheme, network or payload is absent; otherwise the payload
\* handed to Verify and Settle keeps the legacy version, scheme and network,
\* carries the legacy payload unchanged, and has its Accepted amount, asset
\* and payTo taken from the requirements built from the matched rule.
V1DecodeAndUpgrade ==
    \A r \in Reqs :
        (RequiresPayment(r) /\ CredentialKey(r) = "v1" /\ Processed(r)) =>
            LET w == hdrs[r].legacy[1]
            IN  IF MalformedV1(w)
                THEN state[r] = "Rejected" /\ verifyCalls[r] = <<>>
                ELSE /\ Len(verifyCalls[r]) = 1
                     /\ \A c \in {verifyCalls[r][i] : i \in 1..Len(verifyCalls[r])}
                               \cup {settleCalls[r][i] : i \in 1..Len(settleCalls[r])} :
                           LET p == c.payload[1]
                               q == c.requirements[1]
                           IN  /\ p.X402Version = w.obj.x402Version
                               /\ p.Accepted.Scheme = w.obj.scheme
                               /\ p.Accepted.Network = w.obj.network
                               /\ p.Payload = w.obj.payload
                               /\ p.Accepted.Amount = q.Amount
                               /\ p.Accepted.Asset = q.Asset
                               /\ p.Accepted.PayTo = q.PayTo

\* C24: for a streaming call to a priced method the negotiation (resolve,
\* decode, Verify, Settle) happens exactly once, from the opening call's
\* metadata, and is complete before the stream handler is invoked; while the
\* handler sends or receives messages Verify and Settle are not called
\* again, and the Context() the handler sees carries the PaymentContext.
StreamNegotiatedOnce ==
    /\ [](\A r \in Reqs :
            (/\ transport[r] = "stream"
             /\ RequiresPayment(r)
             /\ (handlerCalls[r] > 0 \/ streamMsgs[r] > 0)) =>
                /\ handlerCalls[r] = 1
                /\ Len(verifyCalls[r]) = 1
                /\ Len(settleCalls[r]) = 1
                /\ VerifiedOK(r)
                /\ SettledOK(r)
                /\ verifyCalls[r][1].payload = ExtractPaymentFromMetadata(hdrs[r]).payload
                /\ settleCalls[r][1] = verifyCalls[r][1]
                /\ handlerCtx[r] # <<>>
                /\ handlerCtx[r][1].Verified
                /\ handlerCtx[r][1].TransactionHash =
                       settleResult[r][1].res.TransactionHash)
    /\ [][\A r \in Reqs :
            (transport[r] = "stream" /\ handlerCalls[r] > 0) =>
                /\ verifyCalls'[r] = verifyCalls[r]
                /\ settleCalls'[r] = settleCalls[r]
                /\ handlerCtx'[r] = handlerCtx[r]
                /\ hdrs'[r] = hdrs[r]]_vars

\* a paid stream whose handler exchanged two messages and returned
PaidStreamExchangedMessages ==
    \E r \in Reqs :
        /\ transport[r] = "stream"
        /\ RequiresPayment(r)
        /\ streamMsgs[r] > 1
        /\ handlerResult[r] = "ok"
        /\ Len(settleCalls[r]) = 1

\* C26: a PaymentContext exists for a request exactly when the request has
\* reached Settled; it has Verified = TRUE, payer, amount and token symbol of
\* the verification result, transaction hash and settlement time of the
\* settlement result, and once created it is not modified.  A handler
\* invoked after Settled finds it (GetPaymentFromContext found, RequirePayment
\* without error); a PassThrough handler finds none (found = FALSE,
\* RequirePayment returns an error).
PaymentContextOncePerSettled ==
    /\ [](\A r \in Reqs :
            /\ (handlerCtx[r] # <<>>) <=> (state[r] = "Settled")
            /\ handlerCtx[r] # <<>> =>
                  /\ Len(handlerCtx[r]) = 1
                  /\ handlerCtx[r][1].Verified
                  /\ handlerCtx[r][1].PayerAddress = verifyResult[r][1].res.PayerAddress
                  /\ handlerCtx[r][1].Amount = verifyResult[r][1].res.Amount
                  /\ handlerCtx[r][1].TokenSymbol = verifyResult[r][1].res.TokenSymbol
                  /\ handlerCtx[r][1].TransactionHash =
                         settleResult[r][1].res.TransactionHash
                  /\ handlerCtx[r][1].SettledAt = settleResult[r][1].res.SettledAt
            /\ handlerCalls[r] > 0 =>
                  /\ state[r] \in {"Settled", "PassThrough"}
                  /\ GetPaymentFromContext(handlerCtx[r]).found <=> (state[r] = "Settled")
                  /\ (RequirePayment(handlerCtx[r]).err = "") <=> (state[r] = "Settled")
                  /\ state[r] = "Settled" =>
                         RequirePayment(handlerCtx[r]).val = handlerCtx[r])
    /\ [][\A r \in Reqs :
            handlerCtx[r] # <<>> => handlerCtx'[r] = handlerCtx[r]]_vars

\* a handler has run on a free path, and RequirePayment reports no context
PassThroughHandlerFoundNoContext ==
    \E r \in Reqs :
        /\ state[r] = "PassThrough"
        /\ handlerResult[r] = "ok"
        /\ RequirePayment(handlerCtx[r]).err = "payment context not found"

\* a handler has run after settlement, and RequirePayment returns the context
SettledHandlerFoundContext ==
    \E r \in Reqs :
        /\ state[r] = "Settled"
        /\ handlerResult[r] = "ok"
        /\ RequirePayment(handlerCtx[r]).err = ""

\* the terms a V2 payload accepted are not the server's requirements
AcceptedDiffers(p, q) ==
    \/ p.Accepted.Scheme # q.Scheme
    \/ p.Accepted.Network # q.Network
    \/ p.Accepted.Amount # q.Amount
    \/ p.Accepted.Asset # q.Asset
    \/ p.Accepted.PayTo # q.PayTo

\* C29: in V2 the payload's accepted requirements are cross-validated against
\* the server's: a payment whose accepted scheme, network, amount, asset or
\* payTo differs from the requirements built from the matched rule never
\* reaches Settled (Settle is not called, the handler is not invoked).
AcceptedCrossValidated ==
    \A r \in Reqs :
        (/\ RequiresPayment(r)
         /\ verifyCalls[r] # <<>>
         /\ isV2[r]
         /\ AcceptedDiffers(payload[r][1], requirements[r][1])) =>
            /\ settleCalls[r] = <<>>
            /\ handlerCalls[r] = 0
            /\ state[r] # "Settled"

\* the User-Agent names one of the six browser products
NamesBrowser(ua) ==
    \E i \in 1..Len(ua) :
        ua[i] \in {"Mozilla/", "Chrome/", "Safari/", "Firefox/", "Edge/", "Opera/"}

\* the response is the HTML paywall
IsPaywall(w) ==
    /\ w.status = "402"
    /\ "Content-Type" \in DOMAIN w.hdr
    /\ w.hdr["Content-Type"] = "text/html; charset=utf-8"
    /\ w.body = << [html |-> cfg.CustomPaywallHTML] >>

\* the response is the structured JSON 402
IsJSONPaymentRequired(w) ==
    /\ w.status = "402"
    /\ "Content-Type" \in DOMAIN w.hdr
    /\ w.hdr["Content-Type"] = "application/json"
    /\ Len(w.body) = 1
    /\ DOMAIN w.body[1] = {"json"}
    /\ "accepts" \in DOMAIN w.body[1].json

\* C30: on HTTP a payment-required response is the configured HTML paywall
\* (402, text/html, body CustomPaywallHTML) if and only if CustomPaywallHTML
\* is non-empty and the User-Agent contains one of the six browser
\* indicators; in every other case it is the structured JSON 402.  A gRPC
\* call never gets the HTML paywall.
PaywallOnlyForBrowsers ==
    \A r \in Reqs :
        /\ (transport[r] = "http" /\ resp[r].status = "402") =>
              IF cfg.CustomPaywallHTML # "" /\ NamesBrowser(hdrs[r].ua)
              THEN IsPaywall(resp[r]) /\ ~IsJSONPaymentRequired(resp[r])
              ELSE IsJSONPaymentRequired(resp[r]) /\ ~IsPaywall(resp[r])
        /\ transport[r] # "http" =>
              \A i \in 1..Len(resp[r].body) : "html" \notin DOMAIN resp[r].body[i]

\* a browser was shown the paywall after its payment was found invalid
PaywallAfterInvalidPayment ==
    \E r \in Reqs :
        /\ transport[r] = "http"
        /\ hdrs[r].ua = <<"Opera/", "9.80">>
        /\ VerifyInvalid(r)
        /\ IsPaywall(resp[r])

\* the request reached verification: Verify has been called for it
ReachedVerification(r) == verifyCalls[r] # <<>>

\* q names scheme "exact" and the network, asset, payTo and amount of token
IsRequirementsOfToken(q, token) ==
    /\ q.Scheme = "exact"
    /\ q.Network = token.Network
    /\ q.Asset = token.AssetContract
    /\ q.PayTo = token.Recipient
    /\ q.Amount = token.Amount

\* the same, but for the amount
IsOptionOfToken(q, token) ==
    /\ q.Scheme = "exact"
    /\ q.Network = token.Network
    /\ q.Asset = token.AssetContract
    /\ q.PayTo = token.Recipient

\* C31: for every request that reaches verification, Verify and Settle are
\* called with the same requirements, which are those of the first accepted
\* token of the resolved rule (scheme "exact", that token's network, asset,
\* payTo and amount), and Settle is called with the payload Verify was
\* called with.
VerifySettleSameArguments ==
    \A r \in Reqs :
        ReachedVerification(r) =>
            /\ verifyCalls[r][1].requirements # <<>>
            /\ IsRequirementsOfToken(verifyCalls[r][1].requirements[1],
                                     rule[r][1].AcceptedTokens[1])
            /\ \A k \in 1..Len(settleCalls[r]) :
                  /\ settleCalls[r][k].requirements = verifyCalls[r][1].requirements
                  /\ settleCalls[r][k].payload = verifyCalls[r][1].payload

\* the list of options the server advertises for the request's rule
AdvertisedOptions(r) ==
    IF transport[r] = "http" THEN HTTPAccepts(rule[r][1], cfg)
    ELSE BuildPaymentRequirements(rule[r][1])

\* q and o name the same scheme, network, amount, asset and payTo
SameTerms(q, o) ==
    /\ q.Scheme = o.Scheme
    /\ q.Network = o.Network
    /\ q.Amount = o.Amount
    /\ q.Asset = o.Asset
    /\ q.PayTo = o.PayTo

\* C32: every advertised option is payable: when a V2 payload names as
\* accepted the i-th entry of the accepts list of the rule (for any i), Verify
\* and Settle are called with the requirements of that i-th option.
EveryOptionPayable ==
    \A r \in Reqs :
        (ReachedVerification(r) /\ isV2[r]) =>
            \A i \in 1..Len(AdvertisedOptions(r)) :
                ~AcceptedDiffers(verifyCalls[r][1].payload[1], AdvertisedOptions(r)[i]) =>
                    /\ SameTerms(verifyCalls[r][1].requirements[1],
                                 AdvertisedOptions(r)[i])
                    /\ \A k \in 1..Len(settleCalls[r]) :
                          SameTerms(settleCalls[r][k].requirements[1],
                                    AdvertisedOptions(r)[i])

\* C33: every HTTP 402 response that is not the HTML paywall is structured:
\* its PAYMENT-REQUIRED header is present and base64/JSON-decodes to the same
\* PaymentRequiredResponse as the JSON body (x402Version 2, the same error
\* text, the same accepts list in the same order, one entry per accepted
\* token); the HTML paywall is sent only when it is configured and the client
\* is a browser, and a gRPC payment-required status always carries the
\* encoded structure.
PaymentRequiredIsStructured ==
    \A r \in Reqs :
        /\ (transport[r] = "http" /\ resp[r].status = "402") =>
              IF IsPaywall(resp[r])
              THEN cfg.CustomPaywallHTML # "" /\ NamesBrowser(hdrs[r].ua)
              ELSE /\ IsJSONPaymentRequired(resp[r])
                   /\ "PAYMENT-REQUIRED" \in DOMAIN resp[r].hdr
                   /\ LET d == DecodePaymentRequirements(resp[r].hdr["PAYMENT-REQUIRED"])
                          b == PaymentRequiredFromJSON(resp[r].body[1].json)
                      IN  /\ ~d.err
                          /\ d.val[1] = b
                          /\ b.X402Version = 2
                          /\ b.Error = "Payment required"
                          /\ Len(b.Accepts) = Len(rule[r][1].AcceptedTokens)
        /\ (transport[r] # "http" /\ resp[r].status = "ResourceExhausted") =>
              LET d == DecodePaymentRequirements(resp[r].body[1])
              IN  ~d.err /\ d.val[1].X402Version = 2

\* a client that is no browser got the structured 402, with two options,
\* after its payment was found invalid, although a paywall is configured
StructuredAfterInvalidPayment ==
    \E r \in Reqs :
        /\ transport[r] = "http"
        /\ cfg.CustomPaywallHTML # ""
        /\ hdrs[r].ua = <<"curl/">>
        /\ VerifyInvalid(r)
        /\ resp[r].status = "402"
        /\ "PAYMENT-REQUIRED" \in DOMAIN resp[r].hdr
        /\ Len(resp[r].body[1].json.accepts) = 2

\* what metadata.FromIncomingContext gives the handler of the call r: the
\* interceptors hand the incoming metadata on as it came
HandlerIncomingMetadata(r) == IF hdrs[r].hasMD THEN hdrs[r].xpay ELSE NoHeaders

\* C37: GetPaymentFromGRPCContext reports a verified payment for a call only
\* if a payment was verified and settled for that same request; a caller
\* cannot make it report one by supplying x-payment-verified / x-payment-*
\* metadata on a call that was passed through or never paid.
GatewayPaymentNotForgeable ==
    \A r \in Reqs :
        (transport[r] # "http" /\ handlerCalls[r] > 0) =>
            LET g == GetPaymentFromGRPCContext(HandlerIncomingMetadata(r))
            IN  g.found => (state[r] = "Settled" /\ VerifiedOK(r) /\ SettledOK(r))

\* C38: for every settled request the receipt sent to the client and the
\* PaymentContext given to the handler describe the same payment:
\* receipt.transaction = PaymentContext.TransactionHash, receipt.payer =
\* PaymentContext.PayerAddress and receipt.network = PaymentContext.Network,
\* for every pair of results the verifier may return.
ReceiptMatchesPaymentContext ==
    \A r \in Reqs :
        (state[r] = "Settled" /\ ReceiptSet(r) # {}) =>
            \A k \in ReceiptSet(r) :
                LET d == DecodePaymentResponse(resp[r].hdr[k])
                IN  /\ ~d.err
                    /\ handlerCtx[r] # <<>>
                    /\ d.val[1].Transaction = handlerCtx[r][1].TransactionHash
                    /\ d.val[1].Payer = handlerCtx[r][1].PayerAddress
                    /\ d.val[1].Network = handlerCtx[r][1].Network

(***************************************************************************)
(* Properties of the codec and of the gateway propagation (checked under   *)
(* SpecCodec)                                                              *)
(***************************************************************************)
\* the decoder of the wire type accepts the value: a payload is present, a V1
\* payment names version, scheme and network, and the HTTP decoder of the V2
\* key wants version 2 or more
CodecAccepts(kind, x) ==
    CASE kind = "payload-http" -> x.X402Version >= 2 /\ x.Payload # <<>>
      [] kind = "payload-grpc" -> x.Payload # <<>>
      [] kind = "payment" -> /\ x.X402Version # 0 /\ x.Scheme # "" /\ x.Network # ""
                             /\ x.Payload # <<>>
      [] OTHER -> TRUE

CodecKinds == {"payload-http", "payload-grpc", "requirements", "response", "payment"}

GatewayRoundTrip ==
    (codec.kind = "gateway" /\ codec.stage = "decoded") =>
        IF codec.val # <<>> /\ codec.val[1].Verified
        THEN /\ codec.out.found
             /\ codec.out.val[1].Verified = codec.val[1].Verified
             /\ codec.out.val[1].PayerAddress = codec.val[1].PayerAddress
             /\ codec.out.val[1].Amount = codec.val[1].Amount
             /\ codec.out.val[1].TokenSymbol = codec.val[1].TokenSymbol
             /\ codec.out.val[1].Network = codec.val[1].Network
             /\ codec.out.val[1].TransactionHash = codec.val[1].TransactionHash
             /\ codec.out.val[1].SettledAt = codec.val[1].SettledAt
        ELSE /\ DOMAIN codec.wire = {}
             /\ ~codec.out.found

(***************************************************************************)
(* Properties of construction (checked under SpecConstruct)                *)
(***************************************************************************)
\* the rules of a Config: endpoint, method and default
RulesOf(c) ==
    {c.EndpointPricing[k] : k \in DOMAIN c.EndpointPricing}
    \cup {c.MethodPricing[k] : k \in DOMAIN c.MethodPricing}
    \cup {c.DefaultPricing[i] : i \in 1..Len(c.DefaultPricing)}

\* the Config has a verifier, and every rule has an accepted token and no
\* token with an empty network, symbol, recipient, asset contract or amount
WellFormed(c) ==
    /\ c.Verifier
    /\ \A p \in RulesOf(c) :
          /\ Len(p.AcceptedTokens) >= 1
          /\ \A i \in 1..Len(p.AcceptedTokens) :
                \A f \in TokenFields : p.AcceptedTokens[i][f] # ""

CarriesGoodCredential(r) == RequiresPayment(r) /\ hdrs[r].sig = <<V2Good>>

\* C27: there is no cross-request deduplication: of two concurrent requests
\* that present the same credential each calls Verify on its own, and each
\* whose verification is valid calls Settle, whatever the other has done.
NoDeduplication ==
    \A r \in Reqs :
        /\ (CarriesGoodCredential(r) /\ Processed(r)) =>
              /\ Len(verifyCalls[r]) = 1
              /\ verifyCalls[r][1].payload = V2Decoding(r).val
        /\ (CarriesGoodCredential(r) /\ VerifiedOK(r)) =>
              /\ Len(settleCalls[r]) = 1
              /\ settleCalls[r][1].payload = V2Decoding(r).val

\* Settle has been invoked twice for the same credential, once by each of two
\* requests
SameCredentialSettledTwice ==
    \E r, o \in Reqs :
        /\ r # o
        /\ CarriesGoodCredential(r) /\ CarriesGoodCredential(o)
        /\ hdrs[r].sig = hdrs[o].sig
        /\ Len(settleCalls[r]) = 1 /\ Len(settleCalls[o]) = 1
        /\ settleCalls[r][1].payload = settleCalls[o][1].payload
        /\ state[r] = "Settled" /\ state[o] = "Settled"

\* everything the server holds for one request
RequestView(r) ==
    <<transport[r], ident[r], hdrs[r], state[r], rule[r], isV2[r], payload[r],
      requirements[r], verifyCalls[r], settleCalls[r], verifyResult[r],
      settleResult[r], handlerCalls[r], handlerCtx[r], handlerResult[r], resp[r],
      streamMsgs[r]>>

\* the request's identifier has a price in the table of its transport
PricedIdent(r) ==
    IF transport[r] = "http" THEN ident[r] \in DOMAIN cfg.EndpointPricing
    ELSE ident[r] \in DOMAIN cfg.MethodPricing

\* the request has been answered
Finished(r) == state[r] \in FailedStates \/ handlerResult[r] \in {"ok", "err"}

\* the status a request gets when it is the only one, from its own headers
\* and from the answers its own Verify, Settle and handler calls gave
StatusAlone(r) ==
    LET http == transport[r] = "http"
        handled == IF handlerResult[r] = "ok" THEN (IF http THEN "200" ELSE "OK")
                   ELSE (IF http THEN "500" ELSE "HandlerError")
    IN  IF ~PricedIdent(r) THEN handled
        ELSE IF NoCredential(r) THEN PaymentRequiredStatus(r)
        ELSE IF VerifyFailed(r) THEN (IF http THEN "500" ELSE "Internal")
        ELSE IF VerifyInvalid(r) THEN PaymentRequiredStatus(r)
        ELSE IF SettleFailed(r) THEN (IF http THEN "500" ELSE "Unavailable")
        ELSE handled

\* C28: requests do not interfere.  Under every interleaving of two
\* concurrently processed requests the Config is never written, a step of one
\* request changes nothing held for the other, the PaymentContext a handler
\* observes is built from its own request's verification and settlement
\* results, and the outcome of each request is the one it has when processed
\* alone with the same verifier and handler answers.
RequestsDoNotInterfere ==
    /\ [][cfg' = cfg]_vars
    /\ [][\A r, o \in Reqs :
            (r # o /\ RequestView(r)' # RequestView(r)) =>
                RequestView(o)' = RequestView(o)]_vars
    /\ [](\A r \in Reqs :
            /\ handlerCtx[r] # <<>> =>
                  /\ VerifiedOK(r) /\ SettledOK(r)
                  /\ handlerCtx[r][1].PayerAddress = verifyResult[r][1].res.PayerAddress
                  /\ handlerCtx[r][1].Amount = verifyResult[r][1].res.Amount
                  /\ handlerCtx[r][1].TransactionHash =
                         settleResult[r][1].res.TransactionHash
                  /\ handlerCtx[r][1].Network = requirements[r][1].Network
            /\ Finished(r) =>
                  /\ resp[r].status = StatusAlone(r)
                  /\ (handlerCalls[r] = 1) <=>
                         (~PricedIdent(r) \/ (VerifiedOK(r) /\ SettledOK(r)))
                  /\ handlerCalls[r] <= 1)

\* two requests with the same credential were settled for different payers
\* and transactions, and both handlers have returned
TwoRequestsServedApart ==
    \E r, o \in Reqs :
        /\ r # o
        /\ Finished(r) /\ Finished(o)
        /\ handlerCtx[r] # <<>> /\ handlerCtx[o] # <<>>
        /\ handlerCtx[r][1].PayerAddress # handlerCtx[o][1].PayerAddress
        /\ handlerCtx[r][1].TransactionHash # handlerCtx[o][1].TransactionHash
        /\ resp[r].status # resp[o].status

(***************************************************************************)
(* Termination (checked under SpecLive)                                    *)
(***************************************************************************)
TerminalStates == {"PassThrough", "Rejected", "VerificationFailed", "SettlementFailed",
                   "Settled"}

\* the order of the protocol states
StateOrder ==
    {<<"Unchecked", "PassThrough">>, <<"Unchecked", "AwaitingPayment">>,
     <<"AwaitingPayment", "Rejected">>, <<"AwaitingPayment", "Verifying">>,
     <<"Verifying", "VerificationFailed">>, <<"Verifying", "Settling">>,
     <<"Settling", "SettlementFailed">>, <<"Settling", "Settled">>}

\* the request is over: it is in a terminal state, its handler (if one was
\* called) has returned, and its response is written
Completed(r) ==
    /\ state[r] \in TerminalStates
    /\ handlerResult[r] # "running"
    /\ resp[r].status # ""

\* C36: every request terminates in exactly one terminal state and produces
\* exactly one response.  Provided each Verify, Settle and handler call
\* returns, the request eventually completes; the state changes only along
\* Unchecked, AwaitingPayment, Verifying, Settling to a terminal state, a
\* terminal state is never left, and a written response is never replaced.
EveryRequestTerminates ==
    /\ [][\A r \in Reqs :
            state'[r] # state[r] => <<state[r], state'[r]>> \in StateOrder]_vars
    /\ [][\A r \in Reqs : resp[r].status # "" => resp'[r] = resp[r]]_vars
    /\ [][\A r \in Reqs : Completed(r) => Completed(r)']_vars
    /\ \A r \in Reqs : (state[r] = "Unchecked") ~> Completed(r)

\* a paid stream is over: messages were exchanged and the handler returned
\* after Verify, Settle and the handler each answered once
PaidStreamCompleted ==
    \E r \in Reqs :
        /\ transport[r] = "stream"
        /\ state[r] = "Settled"
        /\ streamMsgs[r] = MaxMessages
        /\ Completed(r)
        /\ Len(verifyCalls[r]) = 1
        /\ Len(settleCalls[r]) = 1

(***************************************************************************)
(* Properties of the two interceptors (checked under SpecInterceptors)     *)
(***************************************************************************)
\* the call u on the unary interceptor and the call s on the stream
\* interceptor are the same call, both are answered, and the verifier and
\* the handler answered both alike
SameCallSameAnswers(u, s) ==
    /\ transport[u] = "unary"
    /\ transport[s] = "stream"
    /\ ident[u] = ident[s]
    /\ hdrs[u] = hdrs[s]
    /\ Finished(u)
    /\ Finished(s)
    /\ verifyResult[u] = verifyResult[s]
    /\ settleResult[u] = settleResult[s]
    /\ handlerResult[u] = handlerResult[s]

StructurallyInvalid(p) ==
    IF p.kind # "object" THEN TRUE
    ELSE IF "signature" \notin DOMAIN p.obj THEN TRUE
    ELSE IF p.obj.signature = "" THEN TRUE
    ELSE IF "authorization" \notin DOMAIN p.obj THEN TRUE
    ELSE IF p.obj.authorization = <<>> THEN TRUE
    ELSE \E k \in {"from", "to", "value", "nonce"} :
            IF k \in DOMAIN p.obj.authorization[1]
            THEN p.obj.authorization[1][k] = ""
            ELSE TRUE

\* the call of the facilitator itself failed: transport error, a status other
\* than 200, or a body that does not decode
FacilitatorCallFailed(a) == a.transportErr \/ a.status # 200 \/ a.body = <<>>

\* the facilitator answered 200 with the flag k set
FacilitatorSaid(a, k) ==
    IF FacilitatorCallFailed(a) THEN FALSE
    ELSE IF k \in DOMAIN a.body[1] THEN a.body[1][k] ELSE FALSE

\* C35: EVMVerifier.Verify never returns an error for an invalid payment.  A
\* payload that fails structural parsing yields valid=false with a reason and
\* no error, without contacting the facilitator; a facilitator answer
\* isValid=false yields valid=false and no error; an error is returned only
\* when the facilitator call itself fails.  EVMVerifier.Settle returns a
\* SettlementResult only when the facilitator answered 200 with success=true,
\* and an error otherwise.
VerifyNeverThrowsForInvalid ==
    /\ evm.stage \in {"verified", "settled"} =>
          LET p == evm.payload
              a == evm.verifyAnswer[1]
              v == evm.verify[1]
          IN  /\ StructurallyInvalid(p) =>
                    /\ ~v.err
                    /\ ~v.contacted
                    /\ v.res # <<>>
                    /\ ~v.res[1].Valid
                    /\ v.res[1].Reason # ""
              /\ (~StructurallyInvalid(p) /\ ~FacilitatorCallFailed(a)) =>
                    /\ ~v.err
                    /\ v.res # <<>>
                    /\ v.res[1].Valid = FacilitatorSaid(a, "isValid")
              /\ v.err <=> (~StructurallyInvalid(p) /\ FacilitatorCallFailed(a))
              /\ v.err => v.res = <<>>
    /\ evm.stage = "settled" =>
          LET p == evm.payload
              a == evm.settleAnswer[1]
              s == evm.settle[1]
          IN  /\ ~s.err => (FacilitatorSaid(a, "success") /\ s.contacted /\ s.res # <<>>)
              /\ ~FacilitatorSaid(a, "success") => (s.err /\ s.res = <<>>)
              /\ s.err <=> (s.res = <<>>)
              /\ StructurallyInvalid(p) => (s.err /\ ~s.contacted)

\* a payload without a signature was found invalid without a call of the
\* facilitator, and Settle on it failed although the facilitator would have
\* answered success
UnsignedPayloadRejectedLocally ==
    /\ evm.stage = "settled"
    /\ evm.payload.kind = "object"
    /\ "signature" \notin DOMAIN evm.payload.obj
    /\ ~evm.verify[1].err
    /\ ~evm.verify[1].res[1].Valid
    /\ ~evm.verify[1].contacted
    /\ evm.settleAnswer[1].status = 200
    /\ evm.settle[1].err

(***************************************************************************)
(* Properties of the resolver (checked under SpecResolve)                  *)
(***************************************************************************)
\* the skip list and the rule table the harness call consults
Skips == IF lookupKind = "endpoint" THEN cfg.SkipPaths ELSE cfg.SkipMethods

Table == IF lookupKind = "endpoint" THEN cfg.EndpointPricing ELSE cfg.MethodPricing

\* the identifier matches a skip pattern
Skipped == \E k \in 1..Len(Skips) : matchPath(lookupId, Skips[k])

\* the patterns of the rule table that match the identifier
Matching == {p \in DOMAIN Table : matchPath(lookupId, p)}

\* C3: for an identifier that matches a skip pattern the resolver returns
\* (nil, false), also when the identifier is an exact key of the rule table,
\* matches a wildcard rule or a default rule is configured.
SkipWins ==
    Skipped => \A i \in 1..Len(lookupLog) : lookupLog[i] = NoPayment

\* a skipped path that is an exact key of the table, matched by a second,
\* wildcard rule, with a default rule configured, has been looked up
SkippedExactKeyLookedUp ==
    /\ lookupKind = "endpoint"
    /\ Skipped
    /\ lookupId \in DOMAIN Table
    /\ \E p \in Matching : p # lookupId
    /\ cfg.DefaultPricing # <<>>
    /\ lookupLog # <<>>

\* C4: for an identifier that matches no skip pattern the resolver returns
\* the rule under the identifier as an exact key if there is one, else the
\* rule of a matching pattern of the greatest length if a pattern matches,
\* else the default rule if configured, else (nil, false).
ResolutionPriority ==
    ~Skipped =>
        \A i \in 1..Len(lookupLog) :
            LET e == lookupLog[i]
            IN  IF lookupId \in DOMAIN Table
                THEN e = Priced(Table[lookupId])
                ELSE IF Matching # {}
                THEN /\ e.requiresPayment
                     /\ \E p \in Matching :
                           /\ \A q \in Matching : Len(q) <= Len(p)
                           /\ e.rule = <<Table[p]>>
                ELSE IF cfg.DefaultPricing # <<>>
                THEN e = Priced(cfg.DefaultPricing[1])
                ELSE e = NoPayment

\* an identifier that is no key of the table and is matched by two patterns
\* of different lengths has been looked up
TwoWildcardsLookedUp ==
    /\ ~Skipped
    /\ lookupId \notin DOMAIN Table
    /\ \E p, q \in Matching : Len(p) < Len(q)
    /\ cfg.DefaultPricing # <<>>
    /\ lookupLog # <<>>

\* C5: two calls of the resolver with the same identifier and an unchanged
\* Config return the same rule and the same requiresPayment flag, for every
\* rule table, also one with several matching patterns of equal length.
ResolutionDeterministic ==
    \A i, j \in 1..Len(lookupLog) : lookupLog[i] = lookupLog[j]

====
